---- MODULE Spec2Model ----
(***************************************************************************)
(* Frame assembly of SpriteSheetMaker (src/modules/combine_frames.py):     *)
(* assemble_images builds the rows from a folder of per-action subfolders  *)
(* and hands them to combine_into_sheet, combine_into_strips or            *)
(* combine_into_images.  File and folder names are sequences of one        *)
(* character strings, so that split, int() and the f-strings of the code   *)
(* are computed and not assumed.                                           *)
(***************************************************************************)
EXTENDS Integers, Sequences, FiniteSets, TLC

VARIABLES
    param,              \* the AssembleParam handed to assemble_images
    input_fs,           \* os.listdir(param.input_folder_path), in listing order
    pc,                 \* position inside assemble_images and the combine_* call
    error,              \* the exception that ended the call, "" when none
    action_folders,     \* the sorted action sub folders
    folder_i,           \* index of the action folder the row loop is at
    rows,               \* list[RowData]
    global_img_widest,
    global_img_tallest,
    row_i,              \* index of the row the combine loop is at
    canvas,             \* the sheet being painted (SHEET mode)
    paste_height,       \* running paste_height of combine_into_sheet
    label_counters,     \* combine_into_strips: label -> times used
    dirs,               \* directories that exist under the output location
    files,              \* files on disk: path -> saved picture
    saved,              \* the paths passed to save(), in call order
    run,                \* which call of assemble_images on this input this is
    first_canvas,       \* the sheet as the first call painted it
    animation_strips,   \* scene.animation_strips of the panel
    strip_index,        \* scene.strip_index of the panel
    strips_added,       \* how many strips add_strip has made so far
    sheet_param,        \* the SpriteSheetParam as create_sprite_sheet was called with
    env,                \* what Blender and the disk do during the call
    maker_pc,           \* position inside create_sprite_sheet and pixelate_images
    maker_error,        \* the exception create_sprite_sheet raised, "" when none
    to_pixelate_attr,   \* param.sprite_param.to_pixelate of the caller's object
    to_pixelate,        \* the local to_pixelate of create_sprite_sheet
    strip_i,            \* enumerate index i of the strip loop, from 0
    frame,              \* the frame the frame loop is at
    row_frame_end,      \* frame_end of the strip the frame loop is in
    temp_dir,           \* the temporary folder, << >> before it is made
    action_dir,         \* the folder of the strip the frame loop is in
    temp_tree,          \* os.listdir(temp_dir) with the frame files in it
    pixelate_dict,      \* the keys of pixelate_dict in insertion order
    events,             \* what was broadcast, rendered and pixelated, in order
    window_scene,       \* bpy.context.window.scene
    scenes,             \* bpy.data.scenes
    original_scene,     \* original_scene of pixelate_images
    px_exception,       \* exception of pixelate_images, "" for None
    px_i                \* position of the image loop of pixelate_images

\* the panel's strip list
uiVars == << animation_strips, strip_index, strips_added >>

\* create_sprite_sheet and the pixelate_images it calls
makerVars == << sheet_param, env, maker_pc, maker_error, to_pixelate_attr, to_pixelate,
                strip_i, frame, row_frame_end, temp_dir, action_dir, temp_tree,
                pixelate_dict, events, window_scene, scenes, original_scene,
                px_exception, px_i >>

\* what a call of assemble_images neither reads nor writes
outerVars == << run, first_canvas, uiVars, makerVars >>

vars == << param, input_fs, pc, error, action_folders, folder_i, rows,
           global_img_widest, global_img_tallest, row_i, canvas, paste_height,
           label_counters, dirs, files, saved, run, first_canvas,
           animation_strips, strip_index, strips_added,
           sheet_param, env, maker_pc, maker_error, to_pixelate_attr, to_pixelate,
           strip_i, frame, row_frame_end, temp_dir, action_dir, temp_tree,
           pixelate_dict, events, window_scene, scenes, original_scene,
           px_exception, px_i >>

\* the state of a call of assemble_images
assembleVars == << param, input_fs, pc, error, action_folders, folder_i, rows,
                   global_img_widest, global_img_tallest, row_i, canvas, paste_height,
                   label_counters, dirs, files, saved >>

\* a canvas nothing has been painted on
NoCanvas == [ width |-> 0, height |-> 0, mode |-> "", ops |-> << >> ]

\* the panel before any strip was added
UiIdle ==
    /\ animation_strips = << >>
    /\ strip_index = 0
    /\ strips_added = 0

\* the scene the user works in
USER_SCENE == "Scene"

\* create_sprite_sheet has not been called
MakerIdle ==
    /\ sheet_param = << >>
    /\ env = << >>
    /\ maker_pc = "idle"
    /\ maker_error = ""
    /\ to_pixelate_attr = FALSE
    /\ to_pixelate = FALSE
    /\ strip_i = 0
    /\ frame = 0
    /\ row_frame_end = 0
    /\ temp_dir = << >>
    /\ action_dir = << >>
    /\ temp_tree = << >>
    /\ pixelate_dict = << >>
    /\ events = << >>
    /\ window_scene = USER_SCENE
    /\ scenes = { USER_SCENE }
    /\ original_scene = ""
    /\ px_exception = ""
    /\ px_i = 0

\* the first call of assemble_images, the panel and the maker left alone
OuterIdle ==
    /\ run = 1
    /\ first_canvas = NoCanvas
    /\ UiIdle
    /\ MakerIdle

-----------------------------------------------------------------------------
(* Bounds of the model *)

MaxActions == 2         \* action sub folders in the input folder
MaxFrames == 3          \* frame files per action folder
MaxPerRow == 2          \* largest max_frames_per_row tried with MaxFrames
MaxChunkFrames == 7     \* frames of the single action of the wrapping inputs
MaxChunkPerRow == 3     \* largest max_frames_per_row of the wrapping inputs

-----------------------------------------------------------------------------
(* Enums and constants of combine_frames.py *)

DEFAULT_COLOR_MODE == "RGBA"
DEFAULT_FILE_FORMAT == << "P", "N", "G" >>

SpriteAlign == { "TOP_LEFT", "TOP_CENTER", "TOP_RIGHT",
                 "MIDDLE_LEFT", "MIDDLE_CENTER", "MIDDLE_RIGHT",
                 "BOTTOM_LEFT", "BOTTOM_CENTER", "BOTTOM_RIGHT" }

SpriteConsistency == { "INDIVIDUAL", "ROW", "ALL" }

CombineMode == { "IMAGES", "STRIPS", "SHEET" }

\* AssembleParam.__init__: the defaults of a fresh parameter object
AssembleParam ==
    [ font_size |-> 24,
      surrounding_margin |-> << 15, 15, 15, 15 >>,
      label_margin |-> 15,
      image_margin |-> 15,
      consistency |-> "INDIVIDUAL",
      align |-> "BOTTOM_CENTER",
      combine_mode |-> "SHEET",
      max_frames_per_row |-> 0,
      output_path |-> << << "o", "u", "t" >> >> ]

-----------------------------------------------------------------------------
(* Strings: str.split, int(), str(int), str.lower *)

Digits == << "0", "1", "2", "3", "4", "5", "6", "7", "8", "9" >>

DigitValue(c) == (CHOOSE i \in 1..10 : Digits[i] = c) - 1

IsDigit(c) == \E i \in 1..10 : Digits[i] = c

Min(a, b) == IF a <= b THEN a ELSE b

Max(a, b) == IF a >= b THEN a ELSE b

\* position of the first occurrence of sep in s, Len(s) + 1 when there is none
FirstIndex(s, sep) ==
    IF \E i \in 1..Len(s) : s[i] = sep
    THEN CHOOSE i \in 1..Len(s) : s[i] = sep /\ \A j \in 1..(i - 1) : s[j] # sep
    ELSE Len(s) + 1

\* x.split(sep)[0]
SplitHead(s, sep) == SubSeq(s, 1, FirstIndex(s, sep) - 1)

\* x.split(sep, 1) has a second element
HasSep(s, sep) == FirstIndex(s, sep) <= Len(s)

\* x.split(sep, 1)[1]
SplitTail(s, sep) == SubSeq(s, FirstIndex(s, sep) + 1, Len(s))

\* int(s) that takes the empty string as well
IsIntOrEmpty(s) == \A i \in 1..Len(s) : IsDigit(s[i])

\* int(s) succeeds; the names of the model hold no sign, blank or other
\* character that int() would accept besides digits
IsInt(s) == Len(s) > 0 /\ \A i \in 1..Len(s) : IsDigit(s[i])

RECURSIVE IntOf(_)
IntOf(s) ==
    IF s = << >> THEN 0
    ELSE 10 * IntOf(SubSeq(s, 1, Len(s) - 1)) + DigitValue(s[Len(s)])

\* f"{n}" of a non-negative integer
RECURSIVE StrOfInt(_)
StrOfInt(n) ==
    IF n < 10 THEN << Digits[n + 1] >>
    ELSE StrOfInt(n \div 10) \o << Digits[(n % 10) + 1] >>

LowerChar(c) ==
    CASE c = "P" -> "p"
      [] c = "N" -> "n"
      [] c = "G" -> "g"
      [] c = "J" -> "j"
      [] c = "E" -> "e"
      [] OTHER -> c

Lower(s) == [ i \in 1..Len(s) |-> LowerChar(s[i]) ]

-----------------------------------------------------------------------------
(* sorted(..., key=...) : a stable sort on records that carry their key *)

InsertByKey(x, t) ==
    LET n == Cardinality({ i \in 1..Len(t) : t[i].key <= x.key })
    IN  SubSeq(t, 1, n) \o << x >> \o SubSeq(t, n + 1, Len(t))

RECURSIVE SortedByKey(_)
SortedByKey(s) ==
    IF s = << >> THEN << >>
    ELSE InsertByKey(s[Len(s)], SortedByKey(SubSeq(s, 1, Len(s) - 1)))

\* the elements of s that satisfy the test, in order
RECURSIVE SelectDirs(_)
SelectDirs(s) ==
    IF s = << >> THEN << >>
    ELSE IF s[1].isdir THEN << s[1] >> \o SelectDirs(Tail(s))
         ELSE SelectDirs(Tail(s))

\* range(start, stop, step) for step > 0
RECURSIVE Range(_, _, _)
Range(start, stop, step) ==
    IF start >= stop THEN << >>
    ELSE << start >> \o Range(start + step, stop, step)

\* s[a:b] with 0 <= a
Slice(s, a, b) == SubSeq(s, a + 1, Min(b, Len(s)))

-----------------------------------------------------------------------------
(* ImageFont.getbbox: the text box of the default font, one glyph of       *)
(* font_size by font_size per character, the top bearing a quarter of the  *)
(* font size.                                                              *)

FontBBox(font_size, text) ==
    << 0, font_size \div 4, Len(text) * font_size, (font_size \div 4) + font_size >>

-----------------------------------------------------------------------------
(* calc_align_offset *)

\* the half rounded away from zero instead
TruncHalfUp(n) == IF n >= 0 THEN (n + 1) \div 2 ELSE -((1 - n) \div 2)

\* int() of a float that is a multiple of one half: truncation toward zero
TruncHalf(n) == IF n >= 0 THEN n \div 2 ELSE -((-n) \div 2)

\* lines 153-177 with the right and bottom offsets not reduced by the small size
calc_align_offset_to_far_edge(align, large_width, large_height, small_width, small_height) ==
    LET x_offset ==
            IF align \in { "TOP_LEFT", "MIDDLE_LEFT", "BOTTOM_LEFT" } THEN 0
            ELSE IF align \in { "TOP_CENTER", "MIDDLE_CENTER", "BOTTOM_CENTER" }
                 THEN TruncHalf(large_width - small_width)
            ELSE large_width
        y_offset ==
            IF align \in { "TOP_LEFT", "TOP_CENTER", "TOP_RIGHT" } THEN 0
            ELSE IF align \in { "MIDDLE_LEFT", "MIDDLE_CENTER", "MIDDLE_RIGHT" }
                 THEN TruncHalf(large_height - small_height)
            ELSE large_height
    IN  << x_offset, y_offset >>

\* lines 153-177
calc_align_offset(align, large_width, large_height, small_width, small_height) ==
    LET x_offset ==
            IF align \in { "TOP_LEFT", "MIDDLE_LEFT", "BOTTOM_LEFT" } THEN 0
            ELSE IF align \in { "TOP_CENTER", "MIDDLE_CENTER", "BOTTOM_CENTER" }
                 THEN TruncHalf(large_width - small_width)
            ELSE IF align \in { "TOP_RIGHT", "MIDDLE_RIGHT", "BOTTOM_RIGHT" }
                 THEN large_width - small_width
            ELSE 0
        y_offset ==
            IF align \in { "TOP_LEFT", "TOP_CENTER", "TOP_RIGHT" } THEN 0
            ELSE IF align \in { "MIDDLE_LEFT", "MIDDLE_CENTER", "MIDDLE_RIGHT" }
                 THEN TruncHalf(large_height - small_height)
            ELSE IF align \in { "BOTTOM_LEFT", "BOTTOM_CENTER", "BOTTOM_RIGHT" }
                 THEN large_height - small_height
            ELSE 0
    IN  << x_offset, y_offset >>

-----------------------------------------------------------------------------
(* RowData and the row loop of assemble_images *)

RECURSIVE AccumWidth(_)
AccumWidth(images) ==
    IF images = << >> THEN 0
    ELSE AccumWidth(SubSeq(images, 1, Len(images) - 1)) + images[Len(images)].width

\* the width of the last image instead of the running maximum
WidestOfLast(start, images) ==
    IF images = << >> THEN start ELSE images[Len(images)].width

RECURSIVE Widest(_, _)
Widest(start, images) ==
    IF images = << >> THEN start
    ELSE Max(Widest(start, SubSeq(images, 1, Len(images) - 1)), images[Len(images)].width)

RECURSIVE Tallest(_, _)
Tallest(start, images) ==
    IF images = << >> THEN start
    ELSE Max(Tallest(start, SubSeq(images, 1, Len(images) - 1)), images[Len(images)].height)

\* Image.open(os.path.join(abs_action_folder, img_name)): the file is
\* identified and its header read; the pixel data stays in the file until the
\* image is pasted
OpenImage(folder, file) ==
    [ filename |-> << folder.name, file.name >>,
      width |-> file.width,
      height |-> file.height,
      format |-> file.format,
      mode |-> file.mode,
      data |-> file.data ]

\* index of the first of the images whose data is of the given kind,
\* Len(images) + 1 when there is none
FirstWith(images, kind) ==
    IF \E i \in 1..Len(images) : images[i].data = kind
    THEN CHOOSE i \in 1..Len(images) :
            images[i].data = kind /\ \A j \in 1..(i - 1) : images[j].data # kind
    ELSE Len(images) + 1

\* the body of the chunk loop without the test of lines 224-233
RowOfChunkLabelled(chunk_idx, chunk, label_text, label_width, label_height, label_offset) ==
    [ label_text |-> label_text,
      label_width |-> label_width,
      label_height |-> label_height,
      label_offset |-> label_offset,
      images |-> chunk,
      img_accum_width |-> AccumWidth(chunk),
      img_widest |-> Widest(0, chunk),
      img_tallest |-> Tallest(0, chunk) ]

\* the body of the chunk loop: the RowData of one chunk
RowOfChunk(chunk_idx, chunk, label_text, label_width, label_height, label_offset) ==
    [ label_text |-> IF chunk_idx = 0 THEN label_text ELSE << >>,
      label_width |-> IF chunk_idx = 0 THEN label_width ELSE 0,
      label_height |-> IF chunk_idx = 0 THEN label_height ELSE 0,
      label_offset |-> IF chunk_idx = 0 THEN label_offset ELSE << 0, 0 >>,
      images |-> chunk,
      img_accum_width |-> AccumWidth(chunk),
      img_widest |-> Widest(0, chunk),
      img_tallest |-> Tallest(0, chunk) ]

\* the chunk loop: for chunk_idx in range(0, len(all_images), max_per_row)
ChunkRows(all_images, max_per_row, label_text, label_width, label_height, label_offset) ==
    LET starts == Range(0, Len(all_images), max_per_row)
    IN  [ k \in 1..Len(starts) |->
            RowOfChunk(starts[k], Slice(all_images, starts[k], starts[k] + max_per_row),
                       label_text, label_width, label_height, label_offset) ]

\* img_names = sorted(os.listdir(abs_action_folder), key=int(stem)), then opened
SortedImages(folder) ==
    LET keyed == [ i \in 1..Len(folder.files) |->
                     [ key |-> IntOf(SplitHead(folder.files[i].name, ".")),
                       file |-> folder.files[i] ] ]
        sorted == SortedByKey(keyed)
    IN  [ i \in 1..Len(sorted) |-> OpenImage(folder, sorted[i].file) ]

\* the action sub folders in listing order, not sorted
ListedActionFolders(listing) == SelectDirs(listing)

\* action_folders = sorted([isdir entries], key=int(prefix))
SortedActionFolders(listing) ==
    LET ds == SelectDirs(listing)
        keyed == [ i \in 1..Len(ds) |->
                     [ key |-> IntOf(SplitHead(ds[i].name, "_")), folder |-> ds[i] ] ]
        sorted == SortedByKey(keyed)
    IN  [ i \in 1..Len(sorted) |-> sorted[i].folder ]

Fail(exc) ==
    /\ pc' = "failed"
    /\ error' = exc

\* lines 181-193: list and sort the action sub folders
AssembleImagesList ==
    /\ pc = "start"
    /\ IF \E i \in 1..Len(input_fs) :
             input_fs[i].isdir /\ ~IsInt(SplitHead(input_fs[i].name, "_"))
       THEN /\ Fail("ValueError")
            /\ UNCHANGED << action_folders, folder_i >>
       ELSE /\ action_folders' = SortedActionFolders(input_fs)
            /\ folder_i' = 1
            /\ pc' = "load"
            /\ UNCHANGED error
    /\ UNCHANGED << param, input_fs, rows, global_img_widest, global_img_tallest,
                    row_i, canvas, paste_height, label_counters, dirs, files, saved >>
    /\ UNCHANGED outerVars

\* lines 194-242: one pass of the loop over action_folders
AssembleImagesLoad ==
    /\ pc = "load"
    /\ folder_i <= Len(action_folders)
    /\ LET action_folder == action_folders[folder_i]
           label_text == SplitTail(action_folder.name, "_")
           label_bbox == IF param.font_size = 0 THEN << 0, 0, 0, 0 >>
                         ELSE FontBBox(param.font_size, label_text)
           label_width == label_bbox[3] - label_bbox[1]
           label_height == label_bbox[4] - label_bbox[2]
           label_offset == << 0, -label_bbox[2] >>
           all_images == SortedImages(action_folder)
           max_per_row == IF param.max_frames_per_row > 0
                          THEN param.max_frames_per_row ELSE Len(all_images)
       IN  IF ~HasSep(action_folder.name, "_")
           THEN /\ Fail("IndexError")
                /\ UNCHANGED << folder_i, rows, global_img_widest, global_img_tallest >>
           ELSE IF \E i \in 1..Len(action_folder.files) :
                      ~IsInt(SplitHead(action_folder.files[i].name, "."))
           THEN /\ Fail("ValueError")
                /\ UNCHANGED << folder_i, rows, global_img_widest, global_img_tallest >>
           ELSE IF FirstWith(all_images, "unidentified") <= Len(all_images)
           THEN \* Image.open raises on a file it cannot identify
                LET opened == SubSeq(all_images, 1,
                                     FirstWith(all_images, "unidentified") - 1)
                IN  /\ Fail("UnidentifiedImageError")
                    /\ global_img_widest' = Widest(global_img_widest, opened)
                    /\ global_img_tallest' = Tallest(global_img_tallest, opened)
                    /\ UNCHANGED << folder_i, rows >>
           ELSE IF max_per_row = 0
           THEN \* range() arg 3 must not be zero
                /\ Fail("ValueError")
                /\ global_img_widest' = Widest(global_img_widest, all_images)
                /\ global_img_tallest' = Tallest(global_img_tallest, all_images)
                /\ UNCHANGED << folder_i, rows >>
           ELSE /\ global_img_widest' = Widest(global_img_widest, all_images)
                /\ global_img_tallest' = Tallest(global_img_tallest, all_images)
                /\ rows' = rows \o ChunkRows(all_images, max_per_row, label_text,
                                             label_width, label_height, label_offset)
                /\ folder_i' = folder_i + 1
                /\ UNCHANGED << pc, error >>
    /\ UNCHANGED << param, input_fs, action_folders, row_i, canvas, paste_height,
                    label_counters, dirs, files, saved >>
    /\ UNCHANGED outerVars

\* lines 245-251: hand the rows to the combine function of param.combine_mode
AssembleImagesCombine ==
    /\ pc = "load"
    /\ folder_i > Len(action_folders)
    /\ pc' = CASE param.combine_mode = "SHEET" -> "sheet"
               [] param.combine_mode = "STRIPS" -> "strips"
               [] param.combine_mode = "IMAGES" -> "images"
               [] OTHER -> "done"
    /\ UNCHANGED << param, input_fs, error, action_folders, folder_i, rows,
                    global_img_widest, global_img_tallest, row_i, canvas,
                    paste_height, label_counters, dirs, files, saved >>
    /\ UNCHANGED outerVars

-----------------------------------------------------------------------------
(* combine_into_sheet *)

\* lines 268-278 with one gap per image instead of one gap between images
sheet_row_width_gap_per_image(row_data) ==
    LET img_count == Len(row_data.images)
        gaps == param.image_margin * img_count
    IN  CASE param.consistency = "INDIVIDUAL" -> row_data.img_accum_width + gaps
          [] param.consistency = "ROW" -> (row_data.img_widest * img_count) + gaps
          [] param.consistency = "ALL" -> (global_img_widest * img_count) + gaps

\* lines 268-278: row_width and row_height of one row
sheet_row_width(row_data) ==
    LET img_count == Len(row_data.images)
        gaps == param.image_margin * (img_count - 1)
    IN  CASE param.consistency = "INDIVIDUAL" -> row_data.img_accum_width + gaps
          [] param.consistency = "ROW" -> (row_data.img_widest * img_count) + gaps
          [] param.consistency = "ALL" -> (global_img_widest * img_count) + gaps

sheet_row_height(row_data) ==
    CASE param.consistency = "INDIVIDUAL" -> row_data.img_tallest
      [] param.consistency = "ROW" -> row_data.img_tallest
      [] param.consistency = "ALL" -> global_img_tallest

\* lines 263-289: the loop that accumulates sheet_width over the first k rows
RECURSIVE sheet_width_loop(_)
sheet_width_loop(k) ==
    IF k = 0 THEN 0
    ELSE Max(Max(sheet_width_loop(k - 1), sheet_row_width(rows[k])), rows[k].label_width)

\* the additional top label margin of lines 286-288
sheet_top_label_margin(row_count) ==
    IF row_count # 0 /\ param.font_size # 0 THEN param.label_margin ELSE 0

\* lines 263-289: the loop that accumulates sheet_height over the first k rows
RECURSIVE sheet_height_loop(_)
sheet_height_loop(k) ==
    IF k = 0 THEN 0
    ELSE sheet_height_loop(k - 1)
         + sheet_row_height(rows[k])
         + (IF param.font_size # 0 THEN rows[k].label_height + param.label_margin ELSE 0)
         + sheet_top_label_margin(k - 1)

\* lines 325-330: the cell of a frame
sheet_cell(img, row_data) ==
    IF param.consistency = "ROW" THEN << row_data.img_widest, row_data.img_tallest >>
    ELSE IF param.consistency = "ALL" THEN << global_img_widest, global_img_tallest >>
    ELSE << img.width, row_data.img_tallest >>

\* line 341: what paste_width grows by after a frame
sheet_advance_without_margin(cell) == cell[1]

sheet_advance(cell) == cell[1] + param.image_margin

\* lines 322-342: paste the images of a row, from paste_width, at height y
RECURSIVE sheet_paste_images(_, _, _, _)
sheet_paste_images(row_data, n, left, y) ==
    \* the paste operations of the first n images and paste_width after them
    IF n = 0 THEN [ ops |-> << >>, paste_width |-> left ]
    ELSE LET before == sheet_paste_images(row_data, n - 1, left, y)
             img == row_data.images[n]
             cell == sheet_cell(img, row_data)
             offset == calc_align_offset(param.align, cell[1], cell[2], img.width, img.height)
         IN  [ ops |-> Append(before.ops,
                              [ op |-> "paste", img |-> img, cell |-> cell,
                                x |-> before.paste_width + offset[1],
                                y |-> y + offset[2] ]),
               paste_width |-> before.paste_width + sheet_advance(cell) ]

\* lines 262-302: the sheet dimensions and the empty sheet
CombineIntoSheetCreate ==
    /\ pc = "sheet"
    /\ IF rows = << >>
       THEN \* images = rows[0].images
            /\ Fail("IndexError")
            /\ UNCHANGED << canvas, row_i, paste_height >>
       ELSE /\ canvas' =
                [ width |-> sheet_width_loop(Len(rows))
                            + param.surrounding_margin[2] + param.surrounding_margin[4],
                  height |-> sheet_height_loop(Len(rows))
                             + param.surrounding_margin[1] + param.surrounding_margin[3],
                  mode |-> IF Len(rows[1].images) # 0 THEN rows[1].images[1].mode
                           ELSE DEFAULT_COLOR_MODE,
                  ops |-> << >> ]
            /\ paste_height' = param.surrounding_margin[1]
            /\ row_i' = 1
            /\ pc' = "sheet_paste"
            /\ UNCHANGED error
    /\ UNCHANGED << param, input_fs, action_folders, folder_i, rows, global_img_widest,
                    global_img_tallest, label_counters, dirs, files, saved >>
    /\ UNCHANGED outerVars

\* lines 307-351: one pass of the loop that pastes a row's label and images
CombineIntoSheetRow ==
    /\ pc = "sheet_paste"
    /\ row_i <= Len(rows)
    /\ LET row_data == rows[row_i]
           paste_width == param.surrounding_margin[4]
           label_ops ==
               IF param.font_size # 0
               THEN << [ op |-> "text", text |-> row_data.label_text,
                         x |-> paste_width + row_data.label_offset[1],
                         y |-> paste_height + row_data.label_offset[2] ] >>
               ELSE << >>
           image_top ==
               IF param.font_size # 0
               THEN paste_height + row_data.label_height + param.label_margin
               ELSE paste_height
           pasted == sheet_paste_images(row_data, Len(row_data.images), paste_width, image_top)
           broken == FirstWith(row_data.images, "truncated")
       IN  IF broken <= Len(row_data.images)
           THEN \* sheet.paste reads the pixel data and raises when it is cut short
                /\ Fail("OSError")
                /\ canvas' = [ canvas EXCEPT !.ops =
                                 @ \o label_ops
                                   \o sheet_paste_images(row_data, broken - 1,
                                                         paste_width, image_top).ops ]
                /\ UNCHANGED << paste_height, row_i >>
           ELSE /\ canvas' = [ canvas EXCEPT !.ops = @ \o label_ops \o pasted.ops ]
                /\ paste_height' =
                     CASE param.consistency = "INDIVIDUAL" ->
                             image_top + row_data.img_tallest + param.label_margin
                       [] param.consistency = "ROW" ->
                             image_top + row_data.img_tallest + param.label_margin
                       [] param.consistency = "ALL" ->
                             image_top + global_img_tallest + param.label_margin
                /\ row_i' = row_i + 1
                /\ UNCHANGED << pc, error >>
    /\ UNCHANGED << param, input_fs, action_folders, folder_i, rows,
                    global_img_widest, global_img_tallest, label_counters, dirs,
                    files, saved >>
    /\ UNCHANGED outerVars

\* img.save(path) that writes through a directory as well
CanSaveAnywhere(ds, path) == TRUE

\* img.save(path) opens the path for writing, which raises IsADirectoryError
\* when the path is a directory
CanSave(ds, path) == path \notin ds

\* files after img.save(path): the picture replaces whatever the path held
SaveFile(fs, path, picture) ==
    [ p \in (DOMAIN fs) \cup { path } |-> IF p = path THEN picture ELSE fs[p] ]

\* lines 354-357: save the sheet
CombineIntoSheetSave ==
    /\ pc = "sheet_paste"
    /\ row_i > Len(rows)
    /\ IF CanSave(dirs, param.output_path)
       THEN /\ files' = SaveFile(files, param.output_path, canvas)
            /\ saved' = Append(saved, param.output_path)
            /\ pc' = "done"
            /\ UNCHANGED error
       ELSE /\ Fail("IsADirectoryError")
            /\ UNCHANGED << files, saved >>
    /\ UNCHANGED << param, input_fs, action_folders, folder_i, rows,
                    global_img_widest, global_img_tallest, row_i, canvas,
                    paste_height, label_counters, dirs >>
    /\ UNCHANGED outerVars

-----------------------------------------------------------------------------
(* unique_path and create_folder.  A path is the sequence of its           *)
(* components; os.path.join(at_path, "") names the directory at_path.      *)

count_limit == 100000

\* lines 129-134: the loop of unique_path over base_name_counter candidates
RECURSIVE unique_path_loop(_, _, _, _, _)
unique_path_loop(ds, fs, parent_dir, target_path, counter) ==
    IF (target_path \in ds \/ target_path \in DOMAIN fs) /\ counter < count_limit
    THEN unique_path_loop(ds, fs, parent_dir,
                          Append(parent_dir, << "_" >> \o StrOfInt(counter)), counter + 1)
    ELSE target_path

\* unique_path(os.path.join(at_path, "")): base_name and ext are empty
unique_path(ds, fs, at_path) ==
    IF at_path \notin ds THEN at_path
    ELSE unique_path_loop(ds, fs, at_path, at_path, 1)

\* the directories after os.makedirs(path)
MakeDirs(ds, path) == ds \cup { SubSeq(path, 1, n) : n \in 1..Len(path) }

\* create_folder(at_path): the directories that exist afterwards
create_folder(ds, fs, at_path) ==
    LET folder_path == unique_path(ds, fs, at_path)
    IN  IF folder_path \notin ds THEN MakeDirs(ds, folder_path) ELSE ds

-----------------------------------------------------------------------------
(* combine_into_strips *)

\* lines 385-395
strip_row_width(row_data) ==
    LET img_count == Len(row_data.images)
        gaps == param.image_margin * (img_count - 1)
    IN  CASE param.consistency = "INDIVIDUAL" -> row_data.img_accum_width + gaps
          [] param.consistency = "ROW" -> row_data.img_widest * img_count + gaps
          [] param.consistency = "ALL" -> global_img_widest * img_count + gaps

strip_img_height(row_data) ==
    CASE param.consistency = "INDIVIDUAL" -> row_data.img_tallest
      [] param.consistency = "ROW" -> row_data.img_tallest
      [] param.consistency = "ALL" -> global_img_tallest

\* line 399
strip_width(row_data) ==
    param.surrounding_margin[4]
    + Max(strip_row_width(row_data), row_data.label_width)
    + param.surrounding_margin[2]

\* line 400
strip_height(row_data) ==
    param.surrounding_margin[1] + row_data.label_height + param.label_margin
    + strip_img_height(row_data) + param.surrounding_margin[3]

\* lines 423-428 with the row's cell for ALL as well
strip_cell_all_as_row(img, row_data) ==
    IF param.consistency = "ROW" THEN << row_data.img_widest, row_data.img_tallest >>
    ELSE IF param.consistency = "ALL" THEN << row_data.img_widest, row_data.img_tallest >>
    ELSE << img.width, row_data.img_tallest >>

\* lines 423-428: the cell of a frame
strip_cell(img, row_data) ==
    IF param.consistency = "ROW" THEN << row_data.img_widest, row_data.img_tallest >>
    ELSE IF param.consistency = "ALL" THEN << global_img_widest, global_img_tallest >>
    ELSE << img.width, row_data.img_tallest >>

\* lines 419-439: paste the images of a row
RECURSIVE strip_paste_images(_, _, _, _)
strip_paste_images(row_data, n, left, y) ==
    IF n = 0 THEN [ ops |-> << >>, paste_width |-> left ]
    ELSE LET before == strip_paste_images(row_data, n - 1, left, y)
             img == row_data.images[n]
             cell == strip_cell(img, row_data)
             offset == calc_align_offset(param.align, cell[1], cell[2], img.width, img.height)
         IN  [ ops |-> Append(before.ops,
                              [ op |-> "paste", img |-> img, cell |-> cell,
                                x |-> before.paste_width + offset[1],
                                y |-> y + offset[2] ]),
               paste_width |-> before.paste_width + cell[1] + param.image_margin ]

\* line 446
strip_base_label(row_data) ==
    IF row_data.label_text # << >> THEN row_data.label_text
    ELSE << "s", "t", "r", "i", "p" >>

\* lines 447-452: label_counters after the row
strip_counters(counters, base_label) ==
    IF base_label \in DOMAIN counters
    THEN [ counters EXCEPT ![base_label] = @ + 1 ]
    ELSE [ l \in (DOMAIN counters) \cup { base_label } |->
             IF l = base_label THEN 1 ELSE counters[l] ]

\* lines 447-452 with the suffix taken before the counter is raised
strip_file_label_from_one(counters, base_label) ==
    IF base_label \in DOMAIN counters
    THEN base_label \o << "_" >> \o StrOfInt(counters[base_label])
    ELSE base_label

\* lines 447-452: file_label of the row
strip_file_label(counters, base_label) ==
    IF base_label \in DOMAIN counters
    THEN base_label \o << "_" >> \o StrOfInt(counters[base_label] + 1)
    ELSE base_label

\* lines 375-376: make sure the output folder exists
CombineIntoStripsFolder ==
    /\ pc = "strips"
    /\ dirs' = create_folder(dirs, files, param.output_path)
    /\ label_counters' = << >>
    /\ row_i' = 1
    /\ pc' = "strips_rows"
    /\ UNCHANGED << param, input_fs, error, action_folders, folder_i, rows,
                    global_img_widest, global_img_tallest, canvas, paste_height,
                    files, saved >>
    /\ UNCHANGED outerVars

\* lines 384-457: one pass of the loop that creates and saves a strip
CombineIntoStripsRow ==
    /\ pc = "strips_rows"
    /\ row_i <= Len(rows)
    /\ LET row_data == rows[row_i]
           label_ops ==
               IF param.font_size # 0
               THEN << [ op |-> "text", text |-> row_data.label_text,
                         x |-> param.surrounding_margin[4] + row_data.label_offset[1],
                         y |-> param.surrounding_margin[1] + row_data.label_offset[2] ] >>
               ELSE << >>
           image_top ==
               IF param.font_size # 0
               THEN param.surrounding_margin[1] + row_data.label_height + param.label_margin
               ELSE param.surrounding_margin[1]
           pasted == strip_paste_images(row_data, Len(row_data.images),
                                        param.surrounding_margin[4], image_top)
           strip == [ width |-> strip_width(row_data),
                      height |-> strip_height(row_data),
                      mode |-> IF Len(row_data.images) # 0 THEN row_data.images[1].mode
                               ELSE DEFAULT_COLOR_MODE,
                      ops |-> label_ops \o pasted.ops ]
           ext == IF Len(row_data.images) # 0 THEN row_data.images[1].format
                  ELSE DEFAULT_FILE_FORMAT
           base_label == strip_base_label(row_data)
           file_label == strip_file_label(label_counters, base_label)
           strip_output_path == Append(param.output_path, file_label \o << "." >> \o Lower(ext))
       IN  IF FirstWith(row_data.images, "truncated") <= Len(row_data.images)
           THEN \* strip.paste raises before the strip is named and saved
                /\ Fail("OSError")
                /\ UNCHANGED << label_counters, files, saved, row_i >>
           ELSE IF ~CanSave(dirs, strip_output_path)
           THEN \* strip.save raises, after the label was counted
                /\ Fail("IsADirectoryError")
                /\ label_counters' = strip_counters(label_counters, base_label)
                /\ UNCHANGED << files, saved, row_i >>
           ELSE /\ label_counters' = strip_counters(label_counters, base_label)
                /\ files' = SaveFile(files, strip_output_path, strip)
                /\ saved' = Append(saved, strip_output_path)
                /\ row_i' = row_i + 1
                /\ UNCHANGED << pc, error >>
    /\ UNCHANGED << param, input_fs, action_folders, folder_i, rows,
                    global_img_widest, global_img_tallest, canvas, paste_height, dirs >>
    /\ UNCHANGED outerVars

\* the loop over the rows is over
CombineIntoStripsEnd ==
    /\ pc = "strips_rows"
    /\ row_i > Len(rows)
    /\ pc' = "done"
    /\ UNCHANGED << param, input_fs, error, action_folders, folder_i, rows,
                    global_img_widest, global_img_tallest, row_i, canvas,
                    paste_height, label_counters, dirs, files, saved >>
    /\ UNCHANGED outerVars

-----------------------------------------------------------------------------
(* combine_into_images *)

\* lines 489-494 with the default cell of combine_into_sheet
image_cell_as_sheet(img, row_data) ==
    IF param.consistency = "ROW" THEN << row_data.img_widest, row_data.img_tallest >>
    ELSE IF param.consistency = "ALL" THEN << global_img_widest, global_img_tallest >>
    ELSE << img.width, row_data.img_tallest >>

\* lines 489-494: the cell of a frame
image_cell(img, row_data) ==
    IF param.consistency = "ROW" THEN << row_data.img_widest, row_data.img_tallest >>
    ELSE IF param.consistency = "ALL" THEN << global_img_widest, global_img_tallest >>
    ELSE << img.width, img.height >>

\* lines 497-513 with the frame pasted at the bare alignment offset
image_picture_without_inset(img, row_data) ==
    LET cell == image_cell(img, row_data)
        offset == calc_align_offset(param.align, cell[1], cell[2], img.width, img.height)
    IN  [ width |-> param.surrounding_margin[4] + cell[1] + param.surrounding_margin[2],
          height |-> param.surrounding_margin[1] + cell[2] + param.surrounding_margin[3],
          mode |-> img.mode,
          ops |-> << [ op |-> "paste", img |-> img, cell |-> cell,
                       x |-> offset[1], y |-> offset[2] ] >> ]

\* lines 497-513: the picture made of one frame
image_picture(img, row_data) ==
    LET cell == image_cell(img, row_data)
        offset == calc_align_offset(param.align, cell[1], cell[2], img.width, img.height)
    IN  [ width |-> param.surrounding_margin[4] + cell[1] + param.surrounding_margin[2],
          height |-> param.surrounding_margin[1] + cell[2] + param.surrounding_margin[3],
          mode |-> img.mode,
          ops |-> << [ op |-> "paste", img |-> img, cell |-> cell,
                       x |-> offset[1] + param.surrounding_margin[4],
                       y |-> offset[2] + param.surrounding_margin[1] ] >> ]

\* lines 517-518: the path an image of the row is saved to
image_output_path(row_folder, img_count, img) ==
    Append(row_folder, StrOfInt(img_count) \o << "." >> \o Lower(img.format))

\* lines 487-521: save the first n images of the row
RECURSIVE images_saved(_, _, _, _)
images_saved(fs, row_folder, row_data, n) ==
    IF n = 0 THEN fs
    ELSE SaveFile(images_saved(fs, row_folder, row_data, n - 1),
                  image_output_path(row_folder, n - 1, row_data.images[n]),
                  image_picture(row_data.images[n], row_data))

\* lines 473-474: make sure the output folder exists
CombineIntoImagesFolder ==
    /\ pc = "images"
    /\ dirs' = create_folder(dirs, files, param.output_path)
    /\ row_i' = 1
    /\ pc' = "images_rows"
    /\ UNCHANGED << param, input_fs, error, action_folders, folder_i, rows,
                    global_img_widest, global_img_tallest, canvas, paste_height,
                    label_counters, files, saved >>
    /\ UNCHANGED outerVars

\* line 481 with the index taken after row_count += 1 of line 483
image_row_folder_from_one(row_count, row_data) ==
    Append(param.output_path, StrOfInt(row_count + 1) \o << "_" >> \o row_data.label_text)

\* line 481: row_folder of the row with index row_count
image_row_folder(row_count, row_data) ==
    Append(param.output_path, StrOfInt(row_count) \o << "_" >> \o row_data.label_text)

\* lines 478-521: one pass of the loop: the row folder and the row's images
CombineIntoImagesRow ==
    /\ pc = "images_rows"
    /\ row_i <= Len(rows)
    /\ LET row_data == rows[row_i]
           row_folder == image_row_folder(row_i - 1, row_data)
           \* the images new_img.paste cannot read or new_img.save cannot write
           Fails(n) ==
               \/ row_data.images[n].data = "truncated"
               \/ ~CanSave(dirs, image_output_path(row_folder, n - 1, row_data.images[n]))
           broken ==
               IF \E n \in 1..Len(row_data.images) : Fails(n)
               THEN CHOOSE n \in 1..Len(row_data.images) :
                       Fails(n) /\ \A k \in 1..(n - 1) : ~Fails(k)
               ELSE Len(row_data.images) + 1
           count == broken - 1
       IN  /\ dirs' = create_folder(dirs, files, row_folder)
           \* the images before the first that fails
           /\ files' = images_saved(files, row_folder, row_data, count)
           /\ saved' = saved \o [ n \in 1..count |->
                                    image_output_path(row_folder, n - 1, row_data.images[n]) ]
           /\ IF broken > Len(row_data.images)
              THEN row_i' = row_i + 1 /\ UNCHANGED << pc, error >>
              ELSE IF row_data.images[broken].data = "truncated"
              THEN Fail("OSError") /\ UNCHANGED row_i
              ELSE Fail("IsADirectoryError") /\ UNCHANGED row_i
    /\ UNCHANGED << param, input_fs, action_folders, folder_i, rows,
                    global_img_widest, global_img_tallest, canvas, paste_height,
                    label_counters >>
    /\ UNCHANGED outerVars

\* the loop over the rows is over
CombineIntoImagesEnd ==
    /\ pc = "images_rows"
    /\ row_i > Len(rows)
    /\ pc' = "done"
    /\ UNCHANGED << param, input_fs, error, action_folders, folder_i, rows,
                    global_img_widest, global_img_tallest, row_i, canvas,
                    paste_height, label_counters, dirs, files, saved >>
    /\ UNCHANGED outerVars

-----------------------------------------------------------------------------
(* assemble_images called again *)

\* line 193 of assemble_images: rows starts empty at every call, whatever an
\* earlier call left in its own rows
rows_left_over(left) == left

rows_at_call(left) == << >>

\* lines 179-193: assemble_images is called once more with the same param on
\* the same input folder; its locals start afresh, the disk is as the first
\* call left it
AssembleImagesAgain ==
    /\ pc \in { "done", "failed" }
    /\ run = 1
    /\ run' = 2
    /\ first_canvas' = canvas
    /\ pc' = "start"
    /\ error' = ""
    /\ action_folders' = << >>
    /\ folder_i' = 0
    /\ rows' = rows_at_call(rows)
    /\ global_img_widest' = 0
    /\ global_img_tallest' = 0
    /\ row_i' = 0
    /\ canvas' = NoCanvas
    /\ paste_height' = 0
    /\ label_counters' = << >>
    /\ UNCHANGED << param, input_fs, dirs, files, saved, uiVars, makerVars >>

-----------------------------------------------------------------------------
(* The strip list of the panel (src/__init__.py) *)

MaxStrips == 5          \* strips add_strip makes in one session

\* collection.move(from, to) on 0-based positions: the item leaves its place
\* and is put back at position to
MoveItem(s, from, to) ==
    LET item == s[from + 1]
        without == [ i \in 1..(Len(s) - 1) |-> IF i <= from THEN s[i] ELSE s[i + 1] ]
    IN  [ i \in 1..Len(s) |->
            IF i < to + 1 THEN without[i]
            ELSE IF i = to + 1 THEN item
            ELSE without[i - 1] ]

\* collection.remove(idx) on a 0-based position
RemoveItem(s, idx) ==
    [ i \in 1..(Len(s) - 1) |-> IF i <= idx THEN s[i] ELSE s[i + 1] ]

\* line 201: the selection after a strip was removed, count strips being left
strip_index_kept(count, idx) == idx

strip_index_after_remove(count, idx) == Max(0, Min(count - 1, idx - 1))

\* lines 184-190: SPRITESHEETMAKER_OT_add_strip.execute
AddStrip ==
    /\ strips_added < MaxStrips
    /\ animation_strips' =
           Append(animation_strips,
                  [ id |-> strips_added + 1, frame_start |-> 1, frame_end |-> 250 ])
    /\ strip_index' = Len(animation_strips') - 1
    /\ strips_added' = strips_added + 1
    /\ UNCHANGED << assembleVars, run, first_canvas, makerVars >>

\* lines 196-202: SPRITESHEETMAKER_OT_remove_strip.execute
RemoveStrip ==
    /\ LET idx == strip_index
       IN  IF 0 <= idx /\ idx < Len(animation_strips)
           THEN /\ animation_strips' = RemoveItem(animation_strips, idx)
                /\ strip_index' = strip_index_after_remove(Len(animation_strips'), idx)
           ELSE UNCHANGED << animation_strips, strip_index >>
    /\ UNCHANGED << assembleVars, run, first_canvas, strips_added, makerVars >>

\* lines 216-229: SPRITESHEETMAKER_OT_move_strip.execute
MoveStrip(direction) ==
    /\ LET idx == strip_index
           strips == animation_strips
       IN  IF direction = "UP" /\ idx > 0
           THEN /\ animation_strips' = MoveItem(strips, idx, idx - 1)
                /\ strip_index' = strip_index - 1
           ELSE IF direction = "DOWN" /\ idx < Len(strips) - 1
           THEN /\ animation_strips' = MoveItem(strips, idx, idx + 1)
                /\ strip_index' = strip_index + 1
           ELSE UNCHANGED << animation_strips, strip_index >>
    /\ UNCHANGED << assembleVars, run, first_canvas, strips_added, makerVars >>

MoveStripUp == MoveStrip("UP")

MoveStripDown == MoveStrip("DOWN")

-----------------------------------------------------------------------------
(* Inputs: the parameter object and the input folder *)

PNG == << "P", "N", "G" >>

DotPng == << ".", "p", "n", "g" >>

\* the state at the call of assemble_images(p) on a folder that lists as
\* listing, the disk holding the directories ds and the files fs
CallStateOn(p, listing, ds, fs) ==
    /\ param = p
    /\ input_fs = listing
    /\ pc = "start"
    /\ error = ""
    /\ action_folders = << >>
    /\ folder_i = 0
    /\ rows = << >>
    /\ global_img_widest = 0
    /\ global_img_tallest = 0
    /\ row_i = 0
    /\ canvas = NoCanvas
    /\ paste_height = 0
    /\ label_counters = << >>
    /\ dirs = ds
    /\ files = fs
    /\ saved = << >>
    /\ OuterIdle

\* assemble_images has not been called, the disk holding the directories ds
NotCalledOn(ds) ==
    /\ param = AssembleParam
    /\ input_fs = << >>
    /\ pc = "idle"
    /\ error = ""
    /\ action_folders = << >>
    /\ folder_i = 0
    /\ rows = << >>
    /\ global_img_widest = 0
    /\ global_img_tallest = 0
    /\ row_i = 0
    /\ canvas = NoCanvas
    /\ paste_height = 0
    /\ label_counters = << >>
    /\ dirs = ds
    /\ files = << >>
    /\ saved = << >>

NotCalled == NotCalledOn({ })

\* the call on a disk that holds nothing where the output goes
CallState(p, listing) == CallStateOn(p, listing, { }, << >>)

\* a frame file <stem>.png of the given size whose content is a whole image
\* ("ok"), no image at all ("unidentified"), or an image cut short after its
\* header ("truncated")
FrameFileOf(stem, w, h, data) ==
    [ name |-> stem \o DotPng, width |-> w, height |-> h, format |-> PNG, mode |-> "RGBA",
      data |-> data ]

\* a frame file as the renderer writes it
FrameFile(stem, w, h) == FrameFileOf(stem, w, h, "ok")

\* an action sub folder <prefix>_<label>
ActionFolder(prefix, label, frames) ==
    [ name |-> prefix \o << "_" >> \o label, isdir |-> TRUE, files |-> frames ]

\* (1) layout inputs: folders 0_a, 1_aa, ... as the renderer writes them, the
\* frames of an action alternating between a tall and a wide shape
FrameShapes == << << 1, 3 >>, << 4, 2 >> >>

ShapeOf(first, j) == FrameShapes[((first + j) % 2) + 1]

LayoutFolder(i, count, first) ==
    ActionFolder(StrOfInt(i - 1), [ k \in 1..i |-> "a" ],
                 [ j \in 1..count |->
                     FrameFile(StrOfInt(j), ShapeOf(first, j)[1], ShapeOf(first, j)[2]) ])

FontSizes == { 0, 6 }

\* four different surrounding margins: top, right, bottom, left
LayoutMargin == << 10, 20, 30, 40 >>

InitLayout ==
    \E consistency \in SpriteConsistency, align \in SpriteAlign, mode \in CombineMode,
       font_size \in FontSizes, per_row \in { 0, MaxPerRow }, first \in { 0, 1 },
       n \in 1..MaxActions :
        \E count \in [ 1..n -> 1..MaxFrames ] :
            CallState([ AssembleParam EXCEPT
                            !.consistency = consistency, !.align = align,
                            !.combine_mode = mode, !.font_size = font_size,
                            !.surrounding_margin = LayoutMargin,
                            !.label_margin = 5,
                            !.image_margin = 7,
                            !.max_frames_per_row = per_row ],
                      [ i \in 1..n |-> LayoutFolder(i, count[i], first) ])

\* (2) wrapping inputs: up to MaxChunkFrames frames per action, every
\* max_frames_per_row up to MaxChunkPerRow
ChunkFolder(i, count) ==
    ActionFolder(StrOfInt(i - 1), [ k \in 1..i |-> "a" ],
                 [ j \in 1..count |-> FrameFile(StrOfInt(j - 1), 1 + (j % 2), 2) ])

InitChunks ==
    \E mode \in CombineMode, font_size \in FontSizes, per_row \in 0..MaxChunkPerRow,
       n \in 1..MaxActions :
        \E count \in [ 1..n -> 0..MaxChunkFrames ] :
            CallState([ AssembleParam EXCEPT
                            !.combine_mode = mode, !.font_size = font_size,
                            !.max_frames_per_row = per_row ],
                      [ i \in 1..n |-> ChunkFolder(i, count[i]) ])

\* (3) ordering inputs: any listing order of folder and file names whose
\* numeric order differs from their lexical order
FolderNames ==
    { << "2", "_", "a" >>, << "1", "0", "_", "b" >>, << "1", "_", "c" >>,
      << "1", "_", "d" >>, << "7", "_", "e" >> }

\* 7_e is a plain file of the input folder, the others are directories
IsFolder(name) == name # << "7", "_", "e" >>

FrameStems == { << "2" >>, << "1", "0" >>, << "1" >>, << "0", "1" >> }

\* the sequences of k different elements of S
Arrangements(S, k) ==
    { s \in [ 1..k -> S ] : \A i, j \in 1..k : i # j => s[i] # s[j] }

InitOrder ==
    \E mode \in CombineMode, per_row \in { 0, MaxPerRow },
       n \in 1..MaxActions, f \in 0..MaxFrames :
        \E names \in Arrangements(FolderNames, n), stems \in Arrangements(FrameStems, f) :
            CallState([ AssembleParam EXCEPT
                            !.combine_mode = mode, !.max_frames_per_row = per_row ],
                      [ i \in 1..n |->
                          [ name |-> names[i], isdir |-> IsFolder(names[i]),
                            files |-> [ j \in 1..f |->
                                          FrameFile(stems[j], Len(stems[j]), 1) ] ] ])

\* (4) label inputs: actions whose labels repeat or look like a suffixed name
MaxLabelActions == 3

Labels ==
    { << "I", "d", "l", "e" >>, << "I", "d", "l", "e", "_", "2" >>,
      << "s", "t", "r", "i", "p" >>, << "s", "t", "r", "i", "p", "_", "2" >> }

InitLabels ==
    \E mode \in CombineMode, per_row \in { 0, 1 }, f \in 1..2, n \in 1..MaxLabelActions :
        \E label \in [ 1..n -> Labels ] :
            CallState([ AssembleParam EXCEPT
                            !.combine_mode = mode, !.max_frames_per_row = per_row ],
                      [ i \in 1..n |->
                          ActionFolder(StrOfInt(i - 1), label[i],
                                       [ j \in 1..f |-> FrameFile(StrOfInt(j), 2, 2) ]) ])

\* (5) output inputs: the output path is absent, or a directory left by an
\* earlier run with a strip, another file and a row folder in it
OldPicture == [ width |-> 1, height |-> 1, mode |-> "L", ops |-> << >> ]

OutputLabels == { << "I", "d", "l", "e" >>, << >> }

OldFileNames ==
    { << "I", "d", "l", "e" >> \o DotPng, << "s", "t", "r", "i", "p" >> \o DotPng,
      << "n", "o", "t", "e", "s" >> }

OldRowFolder == << "0", "_", "I", "d", "l", "e" >>

InitOutput ==
    \E mode \in CombineMode, per_row \in { 0, MaxPerRow }, f \in 1..MaxFrames,
       n \in 1..MaxActions, exists \in BOOLEAN, old \in SUBSET OldFileNames, folder \in BOOLEAN :
        \E label \in [ 1..n -> OutputLabels ] :
            LET p == [ AssembleParam EXCEPT
                           !.combine_mode = mode, !.max_frames_per_row = per_row ]
                \* a sheet is saved to the file output_path, which no directory is
                isdir == exists /\ mode # "SHEET"
            IN  /\ ~isdir => old = { } /\ ~folder
                /\ CallStateOn(p,
                               [ i \in 1..n |->
                                   ActionFolder(StrOfInt(i - 1), label[i],
                                                [ j \in 1..f |->
                                                    FrameFile(StrOfInt(j - 1), 2, 2) ]) ],
                               (IF isdir THEN { p.output_path } ELSE { })
                               \cup (IF folder THEN { Append(p.output_path, OldRowFolder) }
                                     ELSE { }),
                               [ path \in { Append(p.output_path, name) : name \in old }
                                   |-> OldPicture ])

\* (6) alignment inputs: one action of two frames, the first at least as wide
\* and as high as the second, so that with ROW consistency it is the cell of both
MaxSide == 4

AlignSides == (1..MaxSide) \cup { 8, 10 }

InitAlign ==
    \E align \in SpriteAlign, mode \in CombineMode,
       large_width \in AlignSides, large_height \in AlignSides,
       small_width \in AlignSides, small_height \in AlignSides :
        /\ small_width <= large_width
        /\ small_height <= large_height
        /\ CallState([ AssembleParam EXCEPT
                           !.consistency = "ROW", !.align = align,
                           !.combine_mode = mode, !.font_size = 0 ],
                     << ActionFolder(<< "0" >>, << "a" >>,
                                     << FrameFile(<< "0" >>, large_width, large_height),
                                        FrameFile(<< "1" >>, small_width, small_height) >>) >>)

\* (7) the two-action scenario: 0_Walk with two 64x64 frames, 1_Jump with one
\* 64x96 frame, no labels drawn, every margin 10 but label_margin
ScenarioLabelMargins == { 0, 10, AssembleParam.label_margin }

InitScenario ==
    \E consistency \in SpriteConsistency, align \in SpriteAlign, mode \in CombineMode,
       label_margin \in ScenarioLabelMargins :
        CallState([ AssembleParam EXCEPT
                        !.consistency = consistency, !.align = align,
                        !.combine_mode = mode, !.font_size = 0,
                        !.surrounding_margin = << 10, 10, 10, 10 >>,
                        !.label_margin = label_margin,
                        !.image_margin = 10 ],
                  << ActionFolder(<< "0" >>, << "W", "a", "l", "k" >>,
                                  << FrameFile(<< "0" >>, 64, 64),
                                     FrameFile(<< "1" >>, 64, 64) >>),
                     ActionFolder(<< "1" >>, << "J", "u", "m", "p" >>,
                                  << FrameFile(<< "0" >>, 64, 96) >>) >>)

\* (8) naming inputs: an input folder of up to MaxActions entries, directories
\* or plain files, whose names have a numeric, a non-numeric or an empty
\* prefix, each directory holding frames with numeric or non-numeric stems
EntryNames ==
    { << "0", "_", "a" >>, << "1", "_", "b" >>, << "x", "_", "c" >>, << "_", "d" >> }

EntryStems == { << "0" >>, << "1" >>, << "a" >> }

InitNames ==
    \E mode \in CombineMode, n \in 0..MaxActions, f \in 0..2 :
        \E names \in Arrangements(EntryNames, n), isdir \in [ 1..n -> BOOLEAN ],
           stems \in Arrangements(EntryStems, f) :
            CallState([ AssembleParam EXCEPT !.combine_mode = mode ],
                      [ i \in 1..n |->
                          [ name |-> names[i], isdir |-> isdir[i],
                            files |-> IF isdir[i]
                                      THEN [ j \in 1..f |-> FrameFile(stems[j], 2, 2) ]
                                      ELSE << >> ] ])

\* (9) loading inputs: every frame file is whole, not an image, or cut short
FrameData == { "ok", "unidentified", "truncated" }

InitLoad ==
    \E mode \in CombineMode, per_row \in { 0, 1 }, n \in 1..MaxActions, f \in 1..2 :
        \E data \in [ (1..n) \X (1..f) -> FrameData ] :
            CallState([ AssembleParam EXCEPT
                            !.combine_mode = mode, !.max_frames_per_row = per_row ],
                      [ i \in 1..n |->
                          ActionFolder(StrOfInt(i - 1), << "a" >>,
                                       [ j \in 1..f |->
                                           FrameFileOf(StrOfInt(j - 1), 2, 2,
                                                       data[<< i, j >>]) ]) ])

\* (10) writing inputs: the place where the output of one row goes is taken
\* by a directory (in SHEET mode the output path itself)
WriteLabel(i) == [ k \in 1..i |-> "a" ]

InitWrite ==
    \E mode \in CombineMode, n \in 1..MaxActions, f \in 1..2 :
        \E blocked_row \in 0..n, blocked_frame \in 1..f :
            LET p == [ AssembleParam EXCEPT !.combine_mode = mode ]
                row_folder == Append(p.output_path,
                                     StrOfInt(blocked_row - 1) \o << "_" >>
                                     \o WriteLabel(blocked_row))
                taken ==
                    CASE blocked_row = 0 -> { }
                      [] blocked_row > 0 /\ mode = "SHEET" -> { p.output_path }
                      [] blocked_row > 0 /\ mode = "STRIPS" ->
                            { p.output_path,
                              Append(p.output_path, WriteLabel(blocked_row) \o DotPng) }
                      [] blocked_row > 0 /\ mode = "IMAGES" ->
                            { p.output_path, row_folder,
                              Append(row_folder, StrOfInt(blocked_frame - 1) \o DotPng) }
            IN  /\ blocked_row = 0 => blocked_frame = 1
                /\ CallStateOn(p,
                               [ i \in 1..n |->
                                   ActionFolder(StrOfInt(i - 1), WriteLabel(i),
                                                [ j \in 1..f |->
                                                    FrameFile(StrOfInt(j - 1), 2, 2) ]) ],
                               taken, << >>)

\* (11) repeated inputs: the layout inputs under three of the alignments, and
\* an input folder without action folders, for a call that is made twice
TwiceAligns == { "TOP_LEFT", "MIDDLE_CENTER", "BOTTOM_RIGHT" }

InitTwice ==
    \E consistency \in SpriteConsistency, align \in TwiceAligns, mode \in CombineMode,
       font_size \in FontSizes, per_row \in { 0, MaxPerRow }, first \in { 0, 1 },
       n \in 0..MaxActions :
        \E count \in [ 1..n -> 1..MaxFrames ] :
            CallState([ AssembleParam EXCEPT
                            !.consistency = consistency, !.align = align,
                            !.combine_mode = mode, !.font_size = font_size,
                            !.surrounding_margin = LayoutMargin,
                            !.label_margin = 5,
                            !.image_margin = 7,
                            !.max_frames_per_row = per_row ],
                      [ i \in 1..n |-> LayoutFolder(i, count[i], first) ])

-----------------------------------------------------------------------------
(* create_sprite_sheet and pixelate_images                                  *)
(* (src/modules/sprite_sheet_maker_utils.py)                                *)

TEMP_FOLDER_NAME == << "S", "p", "r", "i", "t", "e", "S", "h", "e", "e", "t", "M", "a", "k", "e", "r", "T", "e", "m", "p" >>

PIXELATE_SCENE_NAME == "SpriteSheetMakerPixelateScene"

UNTITLED_FOLDER_NAME == << "U", "n", "t", "i", "t", "l", "e", "d" >>

\* os.path.dirname of a path of components
dirname(path) == SubSeq(path, 1, Len(path) - 1)

\* os.path.exists
Exists(ds, fs, path) == path \in ds \/ path \in DOMAIN fs

\* lines 129-134 of combine_frames.py for a name without extension: the
\* candidates base_name_1, base_name_2, ...
RECURSIVE unique_name_loop(_, _, _, _, _, _)
unique_name_loop(ds, fs, parent_dir, base_name, target_path, counter) ==
    IF Exists(ds, fs, target_path) /\ counter < count_limit
    THEN unique_name_loop(ds, fs, parent_dir, base_name,
                          Append(parent_dir, base_name \o << "_" >> \o StrOfInt(counter)),
                          counter + 1)
    ELSE target_path

\* create_folder(at_path, folder_name) with a folder name: the path it returns
created_folder_path(ds, fs, at_path, folder_name) ==
    LET folder_path == Append(at_path, folder_name)
    IN  IF ~Exists(ds, fs, folder_path) THEN folder_path
        ELSE unique_name_loop(ds, fs, at_path, folder_name, folder_path, 1)

\* create_folder(at_path, folder_name): the directories that exist afterwards
created_folder_dirs(ds, fs, at_path, folder_name) ==
    LET folder_path == created_folder_path(ds, fs, at_path, folder_name)
    IN  IF ~Exists(ds, fs, folder_path) THEN MakeDirs(ds, folder_path) ELSE ds

\* str.strip() of a label
RECURSIVE LStrip(_)
LStrip(s) == IF s # << >> /\ s[1] = " " THEN LStrip(Tail(s)) ELSE s

RECURSIVE RStrip(_)
RStrip(s) == IF s # << >> /\ s[Len(s)] = " " THEN RStrip(SubSeq(s, 1, Len(s) - 1)) ELSE s

\* bpy.path.clean_name: characters that are unsafe in a file name become "_"
clean_name(s) == [ i \in 1..Len(s) |-> IF s[i] \in { " ", "-", ".", "/" } THEN "_" ELSE s[i] ]

\* lines 451-466: the frame range of a strip
strip_frame_range(strip) ==
    LET acted == { k \in 1..Len(strip.capture_items) : strip.capture_items[k].has_action }
        starts == { strip.capture_items[k].frame_range[1] : k \in acted }
        ends == { strip.capture_items[k].frame_range[2] : k \in acted }
    IN  IF strip.manual_frames THEN << strip.frame_start, strip.frame_end >>
        ELSE IF acted = { } THEN << 0, 0 >>
        ELSE << CHOOSE a \in starts : \A b \in starts : a <= b,
                CHOOSE a \in ends : \A b \in ends : a >= b >>

\* lines 470-471: the folder name of strip i, counted from 0
strip_folder_name(i, strip) ==
    LET clean_label == clean_name(RStrip(LStrip(strip.label)))
    IN  StrOfInt(i) \o << "_" >>
        \o (IF clean_label # << >> THEN clean_label ELSE UNTITLED_FOLDER_NAME)

\* one entry of the log: a broadcast with its arguments, a render or a
\* pixelation with its file; strip is the index of the strip it belongs to
Ev(kind, label, n, strip, path) ==
    [ ev |-> kind, label |-> label, n |-> n, strip |-> strip, path |-> path ]

\* the side of a rendered frame in pixels
RenderSide == 4

\* PixelateParam.pixelation_amount in percent
PixelationPercent == 50

\* lines 351-352: int(size * (1.0 - pixelation_amount))
pixelated_size(size, percent) == (size * (100 - percent)) \div 100

\* line 516: f"{action_dir}/{frame}.{file_format.lower()}"
frame_file_name(fr) == StrOfInt(fr) \o << "." >> \o Lower(PNG)

\* the frame file render() writes
RenderedFile(fr) ==
    [ name |-> frame_file_name(fr), width |-> RenderSide, height |-> RenderSide,
      format |-> PNG, mode |-> "RGBA", data |-> "ok" ]

\* temp_dir after the file at path was rendered again by the pixelate scene
PixelatedTree(tree, tdir, path, percent) ==
    [ f \in 1..Len(tree) |->
        [ tree[f] EXCEPT !.files =
            [ k \in 1..Len(tree[f].files) |->
                IF Append(Append(tdir, tree[f].name), tree[f].files[k].name) = path
                THEN [ tree[f].files[k] EXCEPT
                         !.width = pixelated_size(@, percent),
                         !.height = pixelated_size(@, percent) ]
                ELSE tree[f].files[k] ] ] ]

\* lines 507-523 with create_sprite (390-429): what one pass of the frame
\* loop broadcasts and does, in order
frame_events_created_first(label, i, fr, path, pixelate) ==
    << Ev("frame_creating", label, fr, i, << >>),
       Ev("frame_created", label, fr, i, << >>),
       Ev("sprite_creating", << >>, 0, i, path),
       Ev("render", << >>, fr, i, path) >>
    \o (IF pixelate THEN << Ev("pixelate", << >>, 0, i, path) >> ELSE << >>)
    \o << Ev("sprite_created", << >>, 0, i, path) >>

frame_events(label, i, fr, path, pixelate) ==
    << Ev("frame_creating", label, fr, i, << >>),
       Ev("sprite_creating", << >>, 0, i, path),
       Ev("render", << >>, fr, i, path) >>
    \o (IF pixelate THEN << Ev("pixelate", << >>, 0, i, path) >> ELSE << >>)
    \o << Ev("sprite_created", << >>, 0, i, path),
          Ev("frame_created", label, fr, i, << >>) >>

\* create_sprite_sheet raises exc: nothing in it catches
MakerRaise(exc) ==
    /\ maker_pc' = "raised"
    /\ maker_error' = exc

\* lines 433-446: the temp folder and the stored to_pixelate
MakerStart ==
    /\ maker_pc = "start"
    /\ temp_dir' = created_folder_path(dirs, files, dirname(sheet_param.assemble_param.output_path),
                                       TEMP_FOLDER_NAME)
    /\ dirs' = created_folder_dirs(dirs, files, dirname(sheet_param.assemble_param.output_path),
                                   TEMP_FOLDER_NAME)
    /\ to_pixelate' = to_pixelate_attr
    /\ to_pixelate_attr' = FALSE
    /\ pixelate_dict' = << >>
    /\ strip_i' = 0
    /\ maker_pc' = "strips"
    /\ UNCHANGED << sheet_param, env, maker_error, frame, row_frame_end, action_dir,
                    temp_tree, events, window_scene, scenes, original_scene,
                    px_exception, px_i >>
    /\ UNCHANGED << param, input_fs, pc, error, action_folders, folder_i, rows,
                    global_img_widest, global_img_tallest, row_i, canvas, paste_height,
                    label_counters, files, saved, run, first_canvas, uiVars >>

\* lines 448-503: the frame range and the folder of one strip, on_sheet_row_creating
MakerRowCreating ==
    /\ maker_pc = "strips"
    /\ strip_i < Len(sheet_param.animation_strips)
    /\ LET strip == sheet_param.animation_strips[strip_i + 1]
           range == strip_frame_range(strip)
           folder_name == strip_folder_name(strip_i, strip)
       IN  /\ action_dir' = created_folder_path(dirs, files, temp_dir, folder_name)
           /\ dirs' = created_folder_dirs(dirs, files, temp_dir, folder_name)
           /\ temp_tree' = Append(temp_tree,
                                  [ name |-> action_dir'[Len(action_dir')], isdir |-> TRUE,
                                    files |-> << >> ])
           /\ events' = Append(events, Ev("row_creating", strip.label, range[2], strip_i, << >>))
           /\ frame' = range[1]
           /\ row_frame_end' = range[2]
    /\ maker_pc' = "frames"
    /\ UNCHANGED << sheet_param, env, maker_error, to_pixelate_attr, to_pixelate, strip_i,
                    temp_dir, pixelate_dict, window_scene, scenes, original_scene,
                    px_exception, px_i >>
    /\ UNCHANGED << param, input_fs, pc, error, action_folders, folder_i, rows,
                    global_img_widest, global_img_tallest, row_i, canvas, paste_height,
                    label_counters, files, saved, run, first_canvas, uiVars >>

\* lines 505-523: one pass of the frame loop, create_sprite included
MakerFrame ==
    /\ maker_pc = "frames"
    /\ frame <= row_frame_end
    /\ LET strip == sheet_param.animation_strips[strip_i + 1]
           output_file_path == Append(action_dir, frame_file_name(frame))
           done == frame_events(strip.label, strip_i, frame, output_file_path, to_pixelate_attr)
       IN  IF env.fault = "render" /\ env.at = Len(pixelate_dict) + 1
           THEN \* bpy.ops.render.render raises
                /\ MakerRaise("RuntimeError")
                /\ events' = events \o SubSeq(done, 1, 2)
                /\ UNCHANGED << temp_tree, pixelate_dict, frame >>
           ELSE /\ events' = events \o done
                /\ temp_tree' =
                     LET written == [ temp_tree EXCEPT ![Len(temp_tree)].files =
                                        Append(@, RenderedFile(frame)) ]
                     IN  IF to_pixelate_attr
                         THEN PixelatedTree(written, temp_dir, output_file_path,
                                            sheet_param.sprite_param.pixelate_param.pixelation_percent)
                         ELSE written
                /\ pixelate_dict' = IF \E k \in 1..Len(pixelate_dict) :
                                          pixelate_dict[k] = output_file_path
                                    THEN pixelate_dict
                                    ELSE Append(pixelate_dict, output_file_path)
                /\ frame' = frame + 1
                /\ UNCHANGED << maker_pc, maker_error >>
    /\ UNCHANGED << sheet_param, env, to_pixelate_attr, to_pixelate, strip_i, row_frame_end,
                    temp_dir, action_dir, window_scene, scenes, original_scene,
                    px_exception, px_i >>
    /\ UNCHANGED << assembleVars, run, first_canvas, uiVars >>

\* line 527: on_sheet_row_created after the last frame of the strip
MakerRowCreated ==
    /\ maker_pc = "frames"
    /\ frame > row_frame_end
    /\ events' = Append(events,
                        Ev("row_created", sheet_param.animation_strips[strip_i + 1].label,
                           row_frame_end, strip_i, << >>))
    /\ strip_i' = strip_i + 1
    /\ maker_pc' = "strips"
    /\ UNCHANGED << sheet_param, env, maker_error, to_pixelate_attr, to_pixelate, frame,
                    row_frame_end, temp_dir, action_dir, temp_tree, pixelate_dict,
                    window_scene, scenes, original_scene, px_exception, px_i >>
    /\ UNCHANGED << assembleVars, run, first_canvas, uiVars >>

\* lines 531-532: after the last strip, pixelate all images if required
MakerPixelate ==
    /\ maker_pc = "strips"
    /\ strip_i >= Len(sheet_param.animation_strips)
    /\ maker_pc' = IF to_pixelate THEN "pixelate" ELSE "assemble"
    /\ UNCHANGED << sheet_param, env, maker_error, to_pixelate_attr, to_pixelate, strip_i,
                    frame, row_frame_end, temp_dir, action_dir, temp_tree, pixelate_dict,
                    events, window_scene, scenes, original_scene, px_exception, px_i >>
    /\ UNCHANGED << assembleVars, run, first_canvas, uiVars >>

\* line 372: the scene the window shows when pixelate_images is over
scene_left_active(original, active) == active

scene_restored(original, active) == original

\* lines 257-295: get or import the pixelate scene and make it the active one
PixelateGetScene ==
    /\ maker_pc = "pixelate"
    /\ IF PIXELATE_SCENE_NAME \notin scenes
          /\ env.fault \in { "no_blend_file", "no_scene_in_file", "invalid_scene" }
       THEN \* raised before the scene is switched
            /\ MakerRaise("Exception")
            /\ UNCHANGED << scenes, original_scene, window_scene, px_exception >>
       ELSE /\ scenes' = scenes \cup { PIXELATE_SCENE_NAME }
            /\ original_scene' = window_scene
            /\ window_scene' = PIXELATE_SCENE_NAME
            /\ px_exception' = ""
            /\ maker_pc' = "px_try"
            /\ UNCHANGED maker_error
    /\ UNCHANGED << sheet_param, env, to_pixelate_attr, to_pixelate, strip_i, frame,
                    row_frame_end, temp_dir, action_dir, temp_tree, pixelate_dict,
                    events, px_i >>
    /\ UNCHANGED << assembleVars, run, first_canvas, uiVars >>

\* lines 298-330: the compositor nodes; a missing tree or ImageInput node
\* raises inside the try
PixelateSetup ==
    /\ maker_pc = "px_try"
    /\ IF env.fault = "no_tree"
       THEN /\ px_exception' = "AttributeError"
            /\ maker_pc' = "px_finally"
            /\ UNCHANGED px_i
       ELSE IF env.fault = "no_image_node"
       THEN /\ px_exception' = "Exception"
            /\ maker_pc' = "px_finally"
            /\ UNCHANGED px_i
       ELSE /\ px_i' = 1
            /\ maker_pc' = "px_images"
            /\ UNCHANGED px_exception
    /\ UNCHANGED << sheet_param, env, maker_error, to_pixelate_attr, to_pixelate, strip_i,
                    frame, row_frame_end, temp_dir, action_dir, temp_tree, pixelate_dict,
                    events, window_scene, scenes, original_scene >>
    /\ UNCHANGED << assembleVars, run, first_canvas, uiVars >>

\* lines 334-362: one pass of the loop over image_paths
PixelateImage ==
    /\ maker_pc = "px_images"
    /\ px_i <= Len(pixelate_dict)
    /\ LET input_path == pixelate_dict[px_i]
       IN  IF env.fault \in { "load_raises", "px_render" } /\ env.at = px_i
           THEN /\ px_exception' = "RuntimeError"
                /\ maker_pc' = "px_finally"
                /\ UNCHANGED << px_i, temp_tree, events >>
           ELSE IF env.fault = "load_none" /\ env.at = px_i
           THEN \* continue
                /\ px_i' = px_i + 1
                /\ UNCHANGED << px_exception, maker_pc, temp_tree, events >>
           ELSE /\ temp_tree' =
                      PixelatedTree(temp_tree, temp_dir, input_path,
                                    sheet_param.sprite_param.pixelate_param.pixelation_percent)
                /\ events' = Append(events, Ev("pixelate", << >>, 0, 0, input_path))
                /\ px_i' = px_i + 1
                /\ UNCHANGED << px_exception, maker_pc >>
    /\ UNCHANGED << sheet_param, env, maker_error, to_pixelate_attr, to_pixelate, strip_i,
                    frame, row_frame_end, temp_dir, action_dir, pixelate_dict,
                    window_scene, scenes, original_scene >>
    /\ UNCHANGED << assembleVars, run, first_canvas, uiVars >>

\* lines 365-377: after the try: the old scene comes back, the pixelate scene
\* is removed, and what was caught is raised
PixelateRestore ==
    /\ \/ maker_pc = "px_finally"
       \/ maker_pc = "px_images" /\ px_i > Len(pixelate_dict)
    /\ window_scene' = scene_restored(original_scene, window_scene)
    /\ scenes' = scenes \ { PIXELATE_SCENE_NAME }
    /\ IF px_exception # ""
       THEN MakerRaise(px_exception)
       ELSE /\ maker_pc' = "assemble"
            /\ UNCHANGED maker_error
    /\ UNCHANGED << sheet_param, env, to_pixelate_attr, to_pixelate, strip_i, frame,
                    row_frame_end, temp_dir, action_dir, temp_tree, pixelate_dict,
                    events, original_scene, px_exception, px_i >>
    /\ UNCHANGED << assembleVars, run, first_canvas, uiVars >>

\* lines 536-537: assemble_images(param.assemble_param) on the temp folder
MakerAssemble ==
    /\ maker_pc = "assemble"
    /\ param' = sheet_param.assemble_param
    /\ input_fs' = temp_tree
    /\ pc' = "start"
    /\ events' = Append(events, Ev("assemble", << >>, 0, 0, temp_dir))
    /\ maker_pc' = "assembling"
    /\ UNCHANGED << sheet_param, env, maker_error, to_pixelate_attr, to_pixelate, strip_i,
                    frame, row_frame_end, temp_dir, action_dir, temp_tree, pixelate_dict,
                    window_scene, scenes, original_scene, px_exception, px_i >>
    /\ UNCHANGED << error, action_folders, folder_i, rows, global_img_widest,
                    global_img_tallest, row_i, canvas, paste_height, label_counters,
                    dirs, files, saved, run, first_canvas, uiVars >>

\* is path the directory top or something below it
IsUnder(top, path) == Len(path) >= Len(top) /\ SubSeq(path, 1, Len(top)) = top

\* the directories left by shutil.rmtree(top)
rmtree(ds, top) == { d \in ds : ~IsUnder(top, d) }

\* lines 541-553: assemble_images returned: the temp folder is deleted if asked
MakerReturn ==
    /\ maker_pc = "assembling"
    /\ pc = "done"
    /\ IF sheet_param.delete_temp_folder
       THEN /\ dirs' = rmtree(dirs, temp_dir)
            /\ temp_tree' = << >>
       ELSE UNCHANGED << dirs, temp_tree >>
    /\ maker_pc' = "returned"
    /\ UNCHANGED << sheet_param, env, maker_error, to_pixelate_attr, to_pixelate, strip_i,
                    frame, row_frame_end, temp_dir, action_dir, pixelate_dict, events,
                    window_scene, scenes, original_scene, px_exception, px_i >>
    /\ UNCHANGED << param, input_fs, pc, error, action_folders, folder_i, rows,
                    global_img_widest, global_img_tallest, row_i, canvas, paste_height,
                    label_counters, files, saved, run, first_canvas, uiVars >>

\* line 537: assemble_images raised, and so does create_sprite_sheet
MakerAssembleRaised ==
    /\ maker_pc = "assembling"
    /\ pc = "failed"
    /\ MakerRaise(error)
    /\ UNCHANGED << sheet_param, env, to_pixelate_attr, to_pixelate, strip_i, frame,
                    row_frame_end, temp_dir, action_dir, temp_tree, pixelate_dict,
                    events, window_scene, scenes, original_scene, px_exception, px_i >>
    /\ UNCHANGED << assembleVars, run, first_canvas, uiVars >>

\* (12) the panel of a new scene: no strips, strip_index at its default 0
\* (lines 895-896)
InitUi ==
    /\ NotCalled
    /\ run = 1
    /\ first_canvas = NoCanvas
    /\ UiIdle
    /\ MakerIdle

\* (13) create_sprite_sheet is called: up to MaxMakerStrips strips, pixelation
\* and the deletion of the temp folder asked for or not, temp folders of
\* earlier runs on disk, and at most one step of Blender failing
MaxMakerStrips == 2

CaptureItem(has_action, first, last) ==
    [ has_action |-> has_action, frame_range |-> << first, last >> ]

StripParam ==
    [ label |-> << >>, capture_items |-> << >>, manual_frames |-> FALSE,
      frame_start |-> 0, frame_end |-> 250 ]

MakerStrips ==
    { [ StripParam EXCEPT !.label = << "a" >>, !.manual_frames = TRUE,
                          !.frame_start = 1, !.frame_end = 2 ],
      [ StripParam EXCEPT !.label = << " " >>, !.manual_frames = TRUE,
                          !.frame_start = 2, !.frame_end = 1 ],
      [ StripParam EXCEPT !.label = << "a", " ", "b" >>,
                          !.capture_items = << CaptureItem(TRUE, 1, 2),
                                               CaptureItem(FALSE, 0, 0),
                                               CaptureItem(TRUE, 0, 1) >> ],
      [ StripParam EXCEPT !.label = << "a" >>,
                          !.capture_items = << CaptureItem(FALSE, 0, 0) >> ] }

\* what can go wrong in Blender, and at which render or image
MakerFaults ==
    { [ fault |-> "none", at |-> 0 ] }
    \cup { [ fault |-> f, at |-> 0 ] :
             f \in { "no_blend_file", "no_scene_in_file", "invalid_scene", "no_tree",
                     "no_image_node" } }
    \cup { [ fault |-> f, at |-> k ] :
             f \in { "render", "load_raises", "load_none", "px_render" }, k \in 1..2 }

\* the temp folders earlier runs left next to the output
OldTempDirs ==
    { { },
      { << TEMP_FOLDER_NAME >> },
      { << TEMP_FOLDER_NAME >>, << TEMP_FOLDER_NAME \o << "_", "1" >> >> } }

InitMaker ==
    \E n \in 0..MaxMakerStrips, pixelate \in BOOLEAN, delete \in BOOLEAN,
       mode \in CombineMode, flt \in MakerFaults, old \in OldTempDirs,
       scene_left \in BOOLEAN :
        \E strips \in [ 1..n -> MakerStrips ] :
            /\ flt.fault \notin { "none", "render" } => pixelate
            /\ scene_left => pixelate
            /\ NotCalledOn(old)
            /\ run = 1
            /\ first_canvas = NoCanvas
            /\ UiIdle
            /\ sheet_param =
                   [ animation_strips |-> strips,
                     delete_temp_folder |-> delete,
                     sprite_param |->
                         [ to_pixelate |-> pixelate,
                           pixelate_param |-> [ pixelation_percent |-> PixelationPercent ] ],
                     assemble_param |-> [ AssembleParam EXCEPT !.combine_mode = mode ] ]
            /\ env = [ fault |-> flt.fault, at |-> flt.at, old_dirs |-> old ]
            /\ maker_pc = "start"
            /\ maker_error = ""
            /\ to_pixelate_attr = pixelate
            /\ to_pixelate = FALSE
            /\ strip_i = 0
            /\ frame = 0
            /\ row_frame_end = 0
            /\ temp_dir = << >>
            /\ action_dir = << >>
            /\ temp_tree = << >>
            /\ pixelate_dict = << >>
            /\ events = << >>
            /\ window_scene = USER_SCENE
            /\ scenes = IF scene_left THEN { USER_SCENE, PIXELATE_SCENE_NAME }
                        ELSE { USER_SCENE }
            /\ original_scene = ""
            /\ px_exception = ""
            /\ px_i = 0

Init == InitLayout \/ InitChunks \/ InitOrder \/ InitLabels \/ InitOutput \/ InitAlign \/ InitScenario
        \/ InitNames \/ InitLoad \/ InitWrite

-----------------------------------------------------------------------------

Next ==
    \/ AssembleImagesList
    \/ AssembleImagesLoad
    \/ AssembleImagesCombine
    \/ CombineIntoSheetCreate
    \/ CombineIntoSheetRow
    \/ CombineIntoSheetSave
    \/ CombineIntoStripsFolder
    \/ CombineIntoStripsRow
    \/ CombineIntoStripsEnd
    \/ CombineIntoImagesFolder
    \/ CombineIntoImagesRow
    \/ CombineIntoImagesEnd

Spec == Init /\ [][Next]_vars

SpecLayout == InitLayout /\ [][Next]_vars

SpecChunks == InitChunks /\ [][Next]_vars

SpecOrder == InitOrder /\ [][Next]_vars

SpecLabels == InitLabels /\ [][Next]_vars

SpecOutput == InitOutput /\ [][Next]_vars

SpecAlign == InitAlign /\ [][Next]_vars

SpecScenario == InitScenario /\ [][Next]_vars

SpecNames == InitNames /\ [][Next]_vars

SpecLoad == InitLoad /\ [][Next]_vars

SpecWrite == InitWrite /\ [][Next]_vars

\* assemble_images called a second time on the same input
NextTwice ==
    \/ Next
    \/ AssembleImagesAgain

SpecTwice == InitTwice /\ [][NextTwice]_vars

\* the three strip operators of the panel, in any order
NextUi ==
    \/ AddStrip
    \/ RemoveStrip
    \/ MoveStripUp
    \/ MoveStripDown

SpecUi == InitUi /\ [][NextUi]_vars

\* create_sprite_sheet with the pixelate_images and assemble_images it calls
NextMaker ==
    \/ MakerStart
    \/ MakerRowCreating
    \/ MakerFrame
    \/ MakerRowCreated
    \/ MakerPixelate
    \/ PixelateGetScene
    \/ PixelateSetup
    \/ PixelateImage
    \/ PixelateRestore
    \/ MakerAssemble
    \/ MakerReturn
    \/ MakerAssembleRaised
    \/ Next

SpecMaker == InitMaker /\ [][NextMaker]_vars

-----------------------------------------------------------------------------
(* Properties.  What the checks below read off the state *)

\* every picture on disk, and the sheet while it is being painted
Pictures == { files[p] : p \in DOMAIN files } \cup { canvas }

\* every paste of a frame made so far
PasteOps ==
    UNION { { pic.ops[k] : k \in { i \in 1..Len(pic.ops) : pic.ops[i].op = "paste" } } :
            pic \in Pictures }

\* the row a loaded frame belongs to
RowOfImage(img) ==
    CHOOSE r \in 1..Len(rows) : \E j \in 1..Len(rows[r].images) : rows[r].images[j] = img

\* the cell table of the design: consistency -> (cell width, cell height)
TableCell(img, row_data) ==
    CASE param.consistency = "INDIVIDUAL" -> << img.width, row_data.img_tallest >>
      [] param.consistency = "ROW" -> << row_data.img_widest, row_data.img_tallest >>
      [] param.consistency = "ALL" -> << global_img_widest, global_img_tallest >>

MaxOf(S) == CHOOSE m \in S : \A x \in S : x <= m

RECURSIVE SumOver(_, _)
SumOver(n, f) == IF n = 0 THEN 0 ELSE SumOver(n - 1, f) + f[n]

\* sum of the cell widths of the row's frames plus the gaps between them
TableRowWidth(row_data) ==
    SumOver(Len(row_data.images),
            [ j \in 1..Len(row_data.images) |-> TableCell(row_data.images[j], row_data)[1] ])
    + param.image_margin * (Len(row_data.images) - 1)

\* the label part of a row: label height and label margin when a label is drawn
LabelPart(row_data) ==
    IF param.font_size # 0 THEN row_data.label_height + param.label_margin ELSE 0

\* the cell height of a row (every frame of a row has the same cell height)
TableRowHeight(row_data) ==
    IF param.consistency = "ALL" THEN global_img_tallest ELSE row_data.img_tallest

InSheet == param.combine_mode = "SHEET" /\ pc \in { "sheet_paste", "done" }

-----------------------------------------------------------------------------
\* C1 (as stated): in SHEET, STRIPS and IMAGES mode alike the cell of a frame is
\* INDIVIDUAL -> (own width, tallest of its row), ROW -> (widest, tallest of its
\* row), ALL -> (global widest, global tallest).
C1_SameCellInEveryMode ==
    \A o \in PasteOps : o.cell = TableCell(o.img, rows[RowOfImage(o.img)])

\* C1 (amended): the table holds in SHEET and STRIPS mode and for ROW and ALL in
\* IMAGES mode; in IMAGES mode INDIVIDUAL gives the frame's own width and height.
C1_CellByMode ==
    \A o \in PasteOps :
        o.cell = IF param.combine_mode = "IMAGES" /\ param.consistency = "INDIVIDUAL"
                 THEN << o.img.width, o.img.height >>
                 ELSE TableCell(o.img, rows[RowOfImage(o.img)])

C1_Witness ==
    /\ pc = "done"
    /\ param.combine_mode = "IMAGES"
    /\ param.consistency = "INDIVIDUAL"
    /\ \E o \in PasteOps : o.img.height < rows[RowOfImage(o.img)].img_tallest

\* C2: the sheet is as wide as the left and right margin plus the largest, over
\* the rows, of the row width (cell widths plus gaps) and the label width.
C2_SheetWidth ==
    InSheet =>
        canvas.width =
            param.surrounding_margin[4] + param.surrounding_margin[2]
            + MaxOf({ Max(TableRowWidth(rows[r]), rows[r].label_width) : r \in 1..Len(rows) })

C2_Witness ==
    /\ InSheet
    /\ pc = "done"
    /\ \E r \in 1..Len(rows) : rows[r].label_width > TableRowWidth(rows[r])
    /\ \E r \in 1..Len(rows) :
          /\ Len(rows[r].images) >= 2
          /\ \A q \in 1..Len(rows) : TableRowWidth(rows[r]) > rows[q].label_width

\* C3: the sheet is as high as the top and bottom margin plus, per row, the cell
\* height and (when font_size # 0) label height and label margin, plus one more
\* label margin for every row but the first, for every font_size.
C3_SheetHeight ==
    InSheet =>
        canvas.height =
            param.surrounding_margin[1] + param.surrounding_margin[3]
            + SumOver(Len(rows),
                      [ r \in 1..Len(rows) |-> TableRowHeight(rows[r]) + LabelPart(rows[r]) ])
            + param.label_margin * (Len(rows) - 1)

\* C4: the rows are painted in row order, the label of a row before its frames,
\* frame i at x = left + sum over earlier frames of (cell width + image_margin)
\* + dx and y = image top of the row + dy, where the image top of a row is
\* top + what the rows above take (label part + cell height + label_margin each)
\* + the row's own label part.
C4_ImageTop(r) ==
    param.surrounding_margin[1]
    + SumOver(r - 1, [ q \in 1..(r - 1) |->
                         LabelPart(rows[q]) + TableRowHeight(rows[q]) + param.label_margin ])
    + LabelPart(rows[r])

C4_Paste(r, i) ==
    LET row_data == rows[r]
        img == row_data.images[i]
        cell == TableCell(img, row_data)
        d == calc_align_offset(param.align, cell[1], cell[2], img.width, img.height)
    IN  [ op |-> "paste", img |-> img, cell |-> cell,
          x |-> param.surrounding_margin[4]
                + SumOver(i - 1, [ j \in 1..(i - 1) |->
                                     TableCell(row_data.images[j], row_data)[1]
                                     + param.image_margin ])
                + d[1],
          y |-> C4_ImageTop(r) + d[2] ]

C4_RowOps(r) ==
    (IF param.font_size # 0
     THEN << [ op |-> "text", text |-> rows[r].label_text,
               x |-> param.surrounding_margin[4] + rows[r].label_offset[1],
               y |-> C4_ImageTop(r) - LabelPart(rows[r]) + rows[r].label_offset[2] ] >>
     ELSE << >>)
    \o [ i \in 1..Len(rows[r].images) |-> C4_Paste(r, i) ]

RECURSIVE C4_Ops(_)
C4_Ops(n) == IF n = 0 THEN << >> ELSE C4_Ops(n - 1) \o C4_RowOps(n)

C4_SheetPaintOrder ==
    InSheet => canvas.ops = C4_Ops(row_i - 1)

C4_Witness ==
    /\ InSheet
    /\ pc = "done"
    /\ param.font_size # 0
    /\ Len(rows) >= 2
    /\ \E k \in 1..Len(canvas.ops) :
          /\ canvas.ops[k].op = "paste"
          /\ canvas.ops[k].x > param.surrounding_margin[4] + canvas.ops[k].cell[1]
          /\ RowOfImage(canvas.ops[k].img) = 2
    /\ \E o \in PasteOps : o.cell[2] > o.img.height
    /\ \E o \in PasteOps : o.cell[1] > o.img.width

-----------------------------------------------------------------------------
(* The row builder *)

\* the loop over the action folders has ended without an exception
LoadedAll == pc \notin { "start", "failed" } /\ folder_i > Len(action_folders)

\* position of an entry in a listing, by name
ListingPos(listing, name) == CHOOSE i \in 1..Len(listing) : listing[i].name = name

FolderKey(folder) == IntOf(SplitHead(folder.name, "_"))

\* the number of rows an action of n frames takes with m > 0 frames per row
CeilDiv(n, m) == (n + m - 1) \div m

\* the first row of action a is the row after those of the actions before it
RowBase(a, m) ==
    SumOver(a - 1, [ b \in 1..(a - 1) |-> CeilDiv(Len(action_folders[b].files), m) ])

\* the frames of an action whose listing is in numeric order already
ListedImages(folder) == [ j \in 1..Len(folder.files) |-> OpenImage(folder, folder.files[j]) ]

MeasuredLabel(folder) ==
    IF param.font_size = 0 THEN << 0, 0, 0, 0 >>
    ELSE FontBBox(param.font_size, SplitTail(folder.name, "_"))

\* C5: with max_frames_per_row = m > 0 an action of n >= 1 frames gets
\* ceil(n/m) consecutive rows, row k holding frames (k-1)m+1 .. min(km, n) in
\* order; the first row carries the label text and metrics, the others an
\* empty label and zero metrics; 7 frames with m = 3 give rows of 3, 3 and 1.
C5_Chunks ==
    (LoadedAll /\ param.max_frames_per_row > 0) =>
        LET m == param.max_frames_per_row
        IN  /\ Len(rows) = RowBase(Len(action_folders) + 1, m)
            /\ \A a \in 1..Len(action_folders) :
                 LET frames == ListedImages(action_folders[a])
                     n == Len(frames)
                     bbox == MeasuredLabel(action_folders[a])
                 IN  \A k \in 1..CeilDiv(n, m) :
                        LET row_data == rows[RowBase(a, m) + k]
                        IN  /\ row_data.images = SubSeq(frames, (k - 1) * m + 1, Min(k * m, n))
                            /\ Len(row_data.images) = IF k < CeilDiv(n, m) THEN m
                                                      ELSE n - (k - 1) * m
                            /\ k = 1 =>
                                 /\ row_data.label_text = SplitTail(action_folders[a].name, "_")
                                 /\ row_data.label_width = bbox[3] - bbox[1]
                                 /\ row_data.label_height = bbox[4] - bbox[2]
                                 /\ row_data.label_offset = << 0, -bbox[2] >>
                            /\ k > 1 =>
                                 /\ row_data.label_text = << >>
                                 /\ row_data.label_width = 0
                                 /\ row_data.label_height = 0
                                 /\ row_data.label_offset = << 0, 0 >>
            /\ (m = 3 /\ Len(action_folders) = 1 /\ Len(action_folders[1].files) = 7) =>
                 [ r \in 1..Len(rows) |-> Len(rows[r].images) ] = << 3, 3, 1 >>

C5_Witness ==
    /\ LoadedAll
    /\ param.max_frames_per_row = 3
    /\ param.font_size # 0
    /\ Len(action_folders) = 1
    /\ Len(action_folders[1].files) = 7
    /\ Len(rows) = 3
    /\ rows[1].label_width > 0
    /\ rows[3].label_text = << >>

\* C6: with max_frames_per_row = 0 every action folder gets exactly one row that
\* holds all its frames, an action folder without frames included.
C6_OneRowPerAction ==
    (param.max_frames_per_row = 0 /\ pc # "start") =>
        /\ pc # "failed"
        /\ Len(rows) = Min(folder_i - 1, Len(action_folders))
        /\ \A a \in 1..Len(rows) : rows[a].images = ListedImages(action_folders[a])

\* C7 (as stated): the action folders are in strictly ascending order of their
\* integer prefix and the frames of every action in strictly ascending order of
\* their integer stem.
FlatImages ==
    LET RECURSIVE Flat(_)
        Flat(n) == IF n = 0 THEN << >> ELSE Flat(n - 1) \o rows[n].images
    IN  Flat(Len(rows))

FolderPos(img) ==
    CHOOSE a \in 1..Len(action_folders) : action_folders[a].name = img.filename[1]

ImageKey(img) == IntOf(SplitHead(img.filename[2], "."))

C7_StrictlyAscending ==
    LoadedAll =>
        LET flat == FlatImages
        IN  /\ \A i, j \in 1..Len(action_folders) :
                  i < j => FolderKey(action_folders[i]) < FolderKey(action_folders[j])
            /\ \A p, q \in 1..Len(flat) :
                  (p < q /\ flat[p].filename[1] = flat[q].filename[1])
                      => ImageKey(flat[p]) < ImageKey(flat[q])

\* C7 (amended): the action folders are exactly the directories of the listing in
\* ascending numeric order of their prefix, folders with equal integers in
\* listing order; the frames of the rows, read in row order, are all frames of
\* all actions, action by action in that order, and inside an action in ascending
\* numeric order of their stem, frames with equal integers in listing order.
C7_NumericOrder ==
    LoadedAll =>
        LET flat == FlatImages
            pos == [ p \in 1..Len(flat) |-> FolderPos(flat[p]) ]
            key == [ p \in 1..Len(flat) |-> ImageKey(flat[p]) ]
        IN  /\ { action_folders[i] : i \in 1..Len(action_folders) }
                  = { input_fs[i] : i \in { k \in 1..Len(input_fs) : input_fs[k].isdir } }
            /\ \A i, j \in 1..Len(action_folders) :
                  i < j =>
                     \/ FolderKey(action_folders[i]) < FolderKey(action_folders[j])
                     \/ /\ FolderKey(action_folders[i]) = FolderKey(action_folders[j])
                        /\ ListingPos(input_fs, action_folders[i].name)
                             < ListingPos(input_fs, action_folders[j].name)
            /\ { flat[p] : p \in 1..Len(flat) }
                  = UNION { { OpenImage(action_folders[a], action_folders[a].files[j]) :
                              j \in 1..Len(action_folders[a].files) } :
                            a \in 1..Len(action_folders) }
            /\ \A p, q \in 1..Len(flat) :
                  p < q =>
                     \/ pos[p] < pos[q]
                     \/ /\ pos[p] = pos[q]
                        /\ \/ key[p] < key[q]
                           \/ /\ key[p] = key[q]
                              /\ ListingPos(action_folders[pos[p]].files, flat[p].filename[2])
                                   < ListingPos(action_folders[pos[p]].files, flat[q].filename[2])

C7_Witness ==
    /\ LoadedAll
    /\ Len(input_fs) = 2
    /\ input_fs[1].name = << "1", "0", "_", "b" >>
    /\ input_fs[2].name = << "2", "_", "a" >>
    /\ action_folders = << input_fs[2], input_fs[1] >>
    /\ Len(input_fs[1].files) = 3
    /\ input_fs[1].files[1].name = << "1", "0" >> \o DotPng
    /\ input_fs[1].files[2].name = << "0", "1" >> \o DotPng
    /\ input_fs[1].files[3].name = << "1" >> \o DotPng
    /\ param.max_frames_per_row = 0
    /\ Len(rows) = 2
    /\ [ j \in 1..3 |-> rows[1].images[j].filename[2] ]
          = << << "0", "1" >> \o DotPng, << "1" >> \o DotPng, << "1", "0" >> \o DotPng >>

-----------------------------------------------------------------------------
(* Strips *)

InStrips == param.combine_mode = "STRIPS" /\ pc \in { "strips_rows", "done" }

\* the name a row's strip goes by: its label, strip when the label is empty
BaseLabel(r) ==
    IF rows[r].label_text = << >> THEN << "s", "t", "r", "i", "p" >> ELSE rows[r].label_text

\* how many of the rows 1..r go by the same name as row r
UsesUpTo(r) == Cardinality({ q \in 1..r : BaseLabel(q) = BaseLabel(r) })

StripName(label, suffix) ==
    Append(param.output_path, label \o suffix \o << "." >> \o Lower(PNG))

\* C8 (as stated): the first row with a label is saved as <label>.<ext> and the
\* second row with that label as <label>_1.<ext>.
C8_SecondIsSuffixOne ==
    InStrips =>
        \A r \in 1..Len(saved) :
            /\ UsesUpTo(r) = 1 => saved[r] = StripName(BaseLabel(r), << >>)
            /\ UsesUpTo(r) = 2 => saved[r] = StripName(BaseLabel(r), << "_", "1" >>)

\* C8 (amended): the first row with a label is saved as <label>.<ext> and the
\* k-th row with that label, k >= 2, as <label>_<k>.<ext>: the second is
\* <label>_2.<ext>.
C8_SuffixIsUseCount ==
    InStrips =>
        \A r \in 1..Len(saved) :
            /\ UsesUpTo(r) = 1 => saved[r] = StripName(BaseLabel(r), << >>)
            /\ UsesUpTo(r) = 2 => saved[r] = StripName(BaseLabel(r), << "_", "2" >>)
            /\ UsesUpTo(r) > 1 =>
                  saved[r] = StripName(BaseLabel(r), << "_" >> \o StrOfInt(UsesUpTo(r)))

C8_Witness ==
    /\ InStrips
    /\ pc = "done"
    /\ Len(rows) = 2
    /\ rows[1].label_text = << "I", "d", "l", "e" >>
    /\ rows[2].label_text = << "I", "d", "l", "e" >>
    /\ saved = << StripName(<< "I", "d", "l", "e" >>, << >>),
                  StripName(<< "I", "d", "l", "e" >>, << "_", "2" >>) >>

\* C9: the file names chosen for the rows of one STRIPS run are pairwise
\* distinct, so one file per row is on disk and no strip overwrites another.
C9_DistinctStripFiles ==
    InStrips =>
        /\ \A i, j \in 1..Len(saved) : i # j => saved[i] # saved[j]
        /\ Cardinality(DOMAIN files) = Len(saved)

\* C10: a strip is left + max(row width, label width) + right wide and
\* top + (label height + label_margin when font_size # 0) + cell height + bottom
\* high, for every font_size.
C10_StripFits ==
    InStrips =>
        \A r \in 1..Len(saved) :
            /\ files[saved[r]].width =
                  param.surrounding_margin[4]
                  + Max(TableRowWidth(rows[r]), rows[r].label_width)
                  + param.surrounding_margin[2]
            /\ files[saved[r]].height =
                  param.surrounding_margin[1] + LabelPart(rows[r])
                  + TableRowHeight(rows[r]) + param.surrounding_margin[3]

-----------------------------------------------------------------------------
\* the paths written by this run so far
SavedPaths == { saved[i] : i \in 1..Len(saved) }

\* C11: combine_into_strips creates the output directory when it is absent; no
\* file that was in the output directory before the run is overwritten by a
\* strip of this run, and no directory other than output_path is created.
C11_OutputDirRespected ==
    [][ param.combine_mode = "STRIPS" =>
          /\ (pc = "strips" /\ pc' = "strips_rows") => param.output_path \in dirs'
          /\ dirs' \subseteq dirs \cup { param.output_path }
          /\ \A path \in (DOMAIN files) \ SavedPaths :
                path \in DOMAIN files' /\ files'[path] = files[path] ]_vars

InImages == param.combine_mode = "IMAGES" /\ pc \in { "images_rows", "done" }

\* how often a path was written by this run
TimesSaved(path) == Cardinality({ i \in 1..Len(saved) : saved[i] = path })

\* the frames of the rows 1..n
FramesIn(n) == SumOver(n, [ r \in 1..n |-> Len(rows[r].images) ])

\* C12: in IMAGES mode the row at index k of the rows list (k = 0, 1, 2, ...
\* over every row, wrapped continuation rows included) is written into the
\* folder <k>_<label> of output_path and the frame at index j of the row
\* (j = 0, 1, ...) is saved there as <j>.<ext>; every frame of every row is
\* saved exactly once.
C12_RowFoldersAndFrameFiles ==
    InImages =>
        /\ \A r \in 1..(row_i - 1) : \A j \in 1..Len(rows[r].images) :
              LET img == rows[r].images[j]
                  folder == Append(param.output_path,
                                   StrOfInt(r - 1) \o << "_" >> \o rows[r].label_text)
                  path == Append(folder, StrOfInt(j - 1) \o << "." >> \o Lower(img.format))
              IN  /\ folder \in dirs
                  /\ path \in DOMAIN files
                  /\ Len(files[path].ops) = 1
                  /\ files[path].ops[1].op = "paste"
                  /\ files[path].ops[1].img = img
                  /\ TimesSaved(path) = 1
        /\ Len(saved) = FramesIn(row_i - 1)

\* a run that wrapped an action into a row of several frames and a
\* continuation row has written all its rows
C12_Witness ==
    /\ InImages
    /\ pc = "done"
    /\ Len(rows) > Len(action_folders)
    /\ \E r \in 2..Len(rows) : Len(rows[r - 1].images) >= 2 /\ rows[r].label_text = << >>
    /\ Len(saved) >= 3

\* the cell of a frame in IMAGES mode: its own size, the row's, or the global one
ImagesCell(img) ==
    CASE param.consistency = "INDIVIDUAL" -> << img.width, img.height >>
      [] param.consistency = "ROW" ->
            << rows[RowOfImage(img)].img_widest, rows[RowOfImage(img)].img_tallest >>
      [] param.consistency = "ALL" -> << global_img_widest, global_img_tallest >>

\* C13: in IMAGES mode each output image is (left + cell width + right) by
\* (top + cell height + bottom), the frame is pasted at (left + dx, top + dy)
\* with (dx, dy) the calc_align_offset of the frame in the cell, so the frame
\* lies inside the area inset by the surrounding margins; no label is drawn,
\* whatever font_size is.
C13_ImagePadding ==
    InImages =>
        \A path \in DOMAIN files :
            LET pic == files[path]
                o == pic.ops[1]
                cell == ImagesCell(o.img)
                d == calc_align_offset(param.align, cell[1], cell[2],
                                       o.img.width, o.img.height)
                top == param.surrounding_margin[1]
                right == param.surrounding_margin[2]
                bottom == param.surrounding_margin[3]
                left == param.surrounding_margin[4]
            IN  /\ Len(pic.ops) = 1
                /\ o.op = "paste"
                /\ pic.width = left + cell[1] + right
                /\ pic.height = top + cell[2] + bottom
                /\ o.x = left + d[1]
                /\ o.y = top + d[2]
                /\ left <= o.x /\ o.x + o.img.width <= pic.width - right
                /\ top <= o.y /\ o.y + o.img.height <= pic.height - bottom

\* a labelled run has saved a frame that is narrower and lower than its cell
\* and sits off the cell's top left corner
C13_Witness ==
    /\ InImages
    /\ pc = "done"
    /\ param.font_size # 0
    /\ \E path \in DOMAIN files :
          LET o == files[path].ops[1]
          IN  /\ o.img.width < ImagesCell(o.img)[1]
              /\ o.x > param.surrounding_margin[4]
    /\ \E path \in DOMAIN files :
          LET o == files[path].ops[1]
          IN  /\ o.img.height < ImagesCell(o.img)[2]
              /\ o.y > param.surrounding_margin[1]

\* the offset a saved image of IMAGES mode shows: where the frame was pasted,
\* less the left and top margin
ShownOffset(o) ==
    << o.x - param.surrounding_margin[4], o.y - param.surrounding_margin[1] >>

LeftAligns == { "TOP_LEFT", "MIDDLE_LEFT", "BOTTOM_LEFT" }
CenterAligns == { "TOP_CENTER", "MIDDLE_CENTER", "BOTTOM_CENTER" }
RightAligns == { "TOP_RIGHT", "MIDDLE_RIGHT", "BOTTOM_RIGHT" }
TopAligns == { "TOP_LEFT", "TOP_CENTER", "TOP_RIGHT" }
MiddleAligns == { "MIDDLE_LEFT", "MIDDLE_CENTER", "MIDDLE_RIGHT" }
BottomAligns == { "BOTTOM_LEFT", "BOTTOM_CENTER", "BOTTOM_RIGHT" }

\* C14: calc_align_offset returns dx = 0 for the LEFT alignments, floor((W - w)/2)
\* for the CENTER ones and W - w for the RIGHT ones, dy = 0 for TOP,
\* floor((H - h)/2) for MIDDLE and H - h for BOTTOM, for every alignment and all
\* container >= content sizes; MIDDLE_CENTER with (10,10,4,4) gives (3,3) and
\* BOTTOM_RIGHT with (10,8,4,4) gives (6,4).
C14_AlignOffset ==
    InImages =>
        \A path \in DOMAIN files :
            LET o == files[path].ops[1]
                W == o.cell[1]
                H == o.cell[2]
                w == o.img.width
                h == o.img.height
                d == ShownOffset(o)
            IN  /\ param.align \in LeftAligns => d[1] = 0
                /\ param.align \in CenterAligns => d[1] = (W - w) \div 2
                /\ param.align \in RightAligns => d[1] = W - w
                /\ param.align \in TopAligns => d[2] = 0
                /\ param.align \in MiddleAligns => d[2] = (H - h) \div 2
                /\ param.align \in BottomAligns => d[2] = H - h
                /\ (param.align = "MIDDLE_CENTER" /\ << W, H, w, h >> = << 10, 10, 4, 4 >>)
                     => d = << 3, 3 >>
                /\ (param.align = "BOTTOM_RIGHT" /\ << W, H, w, h >> = << 10, 8, 4, 4 >>)
                     => d = << 6, 4 >>

\* a frame has been centred in a cell that is an odd number of pixels wider
\* and higher
C14_Witness ==
    /\ InImages
    /\ pc = "done"
    /\ param.align = "MIDDLE_CENTER"
    /\ \E path \in DOMAIN files :
          LET o == files[path].ops[1]
          IN  /\ (o.cell[1] - o.img.width) % 2 = 1
              /\ (o.cell[2] - o.img.height) % 2 = 1
              /\ ShownOffset(o)[1] > 0

\* C15: for every alignment and all positive sizes with container >= content
\* calc_align_offset returns (dx, dy) with 0 <= dx <= W - w and 0 <= dy <= H - h.
C15_OffsetInsideContainer ==
    InImages =>
        \A path \in DOMAIN files :
            LET o == files[path].ops[1]
                d == ShownOffset(o)
            IN  /\ 0 <= d[1] /\ d[1] <= o.cell[1] - o.img.width
                /\ 0 <= d[2] /\ d[2] <= o.cell[2] - o.img.height

\* a 4x4 frame has been put into the bottom right corner of a 10x8 cell
C15_Witness ==
    /\ InImages
    /\ pc = "done"
    /\ param.align = "BOTTOM_RIGHT"
    /\ \E path \in DOMAIN files :
          LET o == files[path].ops[1]
          IN  /\ o.cell = << 10, 8 >>
              /\ << o.img.width, o.img.height >> = << 4, 4 >>
              /\ ShownOffset(o) = << 6, 4 >>

\* every frame file of every action sub folder of the input
InputFrames ==
    UNION { { input_fs[i].files[j] : j \in 1..Len(input_fs[i].files) } :
            i \in { k \in 1..Len(input_fs) : input_fs[k].isdir } }

\* position of a frame in its row
PosInRow(img) ==
    CHOOSE j \in 1..Len(rows[RowOfImage(img)].images) : rows[RowOfImage(img)].images[j] = img

\* C16: with consistency = ALL, in every mode, every frame of every row has the
\* cell (global_img_widest, global_img_tallest), the maxima over all loaded
\* frames of all actions, whatever its own size; every row is therefore
\* global_img_widest times its frame count plus the gaps wide.
C16_GlobalCell ==
    (param.consistency = "ALL" /\ LoadedAll) =>
        LET widest == MaxOf({ f.width : f \in InputFrames })
            tallest == MaxOf({ f.height : f \in InputFrames })
            left == param.surrounding_margin[4]
            right == param.surrounding_margin[2]
            RowWidth(r) == widest * Len(rows[r].images)
                           + param.image_margin * (Len(rows[r].images) - 1)
        IN  /\ global_img_widest = widest
            /\ global_img_tallest = tallest
            /\ \A o \in PasteOps : o.cell = << widest, tallest >>
            /\ (InSheet \/ InStrips) =>
                  \A o \in PasteOps :
                      o.x = left + (PosInRow(o.img) - 1) * (widest + param.image_margin)
                            + calc_align_offset(param.align, widest, tallest,
                                                o.img.width, o.img.height)[1]
            /\ InStrips =>
                  \A r \in 1..(row_i - 1) :
                      files[saved[r]].width
                        = left + Max(RowWidth(r), rows[r].label_width) + right
            /\ InSheet =>
                  canvas.width
                    = left + right
                      + MaxOf({ Max(RowWidth(r), rows[r].label_width) : r \in 1..Len(rows) })

\* a frame of a row that is narrower than the widest frame of the run, and a
\* frame that is lower than the tallest, have been pasted
C16_Witness ==
    /\ param.consistency = "ALL"
    /\ pc = "done"
    /\ \E o \in PasteOps : rows[RowOfImage(o.img)].img_widest < global_img_widest
    /\ \E o \in PasteOps : o.img.height < global_img_tallest

\* the paste of the frame <name>.png of the action folder <folder> on the sheet
SheetPaste(folder, name) ==
    CHOOSE o \in PasteOps : o.img.filename = << folder, name \o DotPng >>

\* C17: the SHEET scenario of 0_Walk (two 64x64 frames) and 1_Jump (one 64x96
\* frame), margins 10, image_margin 10, font_size 0, ROW, BOTTOM_CENTER: the
\* canvas is 158 wide and 64 + 96 + 20 plus the inter-row spacing of the sheet
\* height formula (one label_margin for the second row) high, 180 when
\* label_margin is 0; the Walk frames are pasted at x = 10 and x = 84 on the
\* same y; the Jump frame has offset (0, 0) in its 96-tall cell and lies
\* entirely inside the canvas, below the Walk row.
C17_SheetScenario ==
    ( /\ param.combine_mode = "SHEET"
      /\ pc = "done"
      /\ param.consistency = "ROW"
      /\ param.align = "BOTTOM_CENTER" ) =>
        LET walk0 == SheetPaste(<< "0", "_", "W", "a", "l", "k" >>, << "0" >>)
            walk1 == SheetPaste(<< "0", "_", "W", "a", "l", "k" >>, << "1" >>)
            jump == SheetPaste(<< "1", "_", "J", "u", "m", "p" >>, << "0" >>)
            sheet == files[param.output_path]
        IN  /\ sheet.width = 158
            /\ sheet.height = 64 + 96 + 20 + param.label_margin
            /\ param.label_margin = 0 => sheet.height = 180
            /\ walk0.x = 10 /\ walk1.x = 84 /\ walk0.y = walk1.y
            /\ jump.cell[2] = 96
            /\ calc_align_offset(param.align, jump.cell[1], jump.cell[2],
                                 jump.img.width, jump.img.height) = << 0, 0 >>
            /\ jump.y >= walk0.y + 64
            /\ 0 <= jump.x /\ jump.x + jump.img.width <= sheet.width
            /\ 0 <= jump.y /\ jump.y + jump.img.height <= sheet.height

\* the action sub folders of the input, in listing order
InputFolders == SelectSeq(input_fs, LAMBDA e : e.isdir)

\* nothing has been written: no directory made, no file saved
NoOutput == dirs = { } /\ files = << >> /\ saved = << >>

\* the run is still listing or loading, or it has failed with the exception exc
AbortsWith(exc) ==
    \/ pc = "start"
    \/ pc = "load" /\ folder_i <= Len(action_folders)
    \/ pc = "failed" /\ error = exc

\* C18: when the input folder holds no action sub folder assemble_images fails
\* with a ConfigurationError in every combine mode; it never completes
\* normally and never creates an output file or directory.
C18_EmptyInputRejected ==
    InputFolders = << >> =>
        /\ pc \in { "start", "load" } \/ (pc = "failed" /\ error = "ConfigurationError")
        /\ NoOutput

\* a string of decimal digits, at least one
DecimalDigits(s) ==
    /\ s # << >>
    /\ \A i \in 1..Len(s) : s[i] \in { "0", "1", "2", "3", "4", "5", "6", "7", "8", "9" }

BadPrefix ==
    \E i \in 1..Len(InputFolders) : ~DecimalDigits(SplitHead(InputFolders[i].name, "_"))

BadStem ==
    \E i \in 1..Len(InputFolders) : \E j \in 1..Len(InputFolders[i].files) :
        ~DecimalDigits(SplitHead(InputFolders[i].files[j].name, "."))

\* C19 (as stated): when a sub directory name has no parseable integer prefix,
\* or a frame file name no parseable integer stem, assemble_images fails with
\* a ConfigurationError, before any output file or directory is written.
C19_BadNameIsConfigurationError ==
    (BadPrefix \/ BadStem) => AbortsWith("ConfigurationError") /\ NoOutput

\* C19 (amended): in that case assemble_images fails with the ValueError of
\* int(), in every mode and before any output file or directory is written.
C19_BadNameIsValueError ==
    (BadPrefix \/ BadStem) => AbortsWith("ValueError") /\ NoOutput

\* a run whose folders all have a numeric prefix has failed on a frame name
C19_Witness ==
    /\ ~BadPrefix
    /\ BadStem
    /\ pc = "failed"
    /\ error = "ValueError"
    /\ Len(action_folders) >= 2
    /\ NoOutput

\* some frame file of some action cannot be loaded
UnloadableFrame == \E f \in InputFrames : f.data # "ok"

\* C20: if any frame file of any action fails to load, assemble_images aborts
\* the whole assembly with an error: every frame is opened by the row builder
\* before the first canvas is created or the first output written, so the run
\* never completes and leaves no output at all.
C20_LoadFailureLeavesNoOutput ==
    UnloadableFrame => pc # "done" /\ NoOutput

\* the frames a picture shows, in the order they were pasted
PastedImages(pic) ==
    LET pastes == SelectSeq(pic.ops, LAMBDA o : o.op = "paste")
    IN  [ i \in 1..Len(pastes) |-> pastes[i].img ]

\* where the output of row r goes: the strip of the row, or its images
RowOutputPaths(r) ==
    IF param.combine_mode = "STRIPS"
    THEN { Append(param.output_path, BaseLabel(r) \o << "." >> \o Lower(PNG)) }
    ELSE { Append(Append(param.output_path,
                         StrOfInt(r - 1) \o << "_" >> \o rows[r].label_text),
                  StrOfInt(j - 1) \o << "." >> \o Lower(PNG)) :
           j \in 1..Len(rows[r].images) }

\* every output of row r is on disk and shows the frames of row r
RowWritten(r) ==
    /\ \A path \in RowOutputPaths(r) : path \in DOMAIN files
    /\ IF param.combine_mode = "STRIPS"
       THEN \A path \in RowOutputPaths(r) : PastedImages(files[path]) = rows[r].images
       ELSE { PastedImages(files[path]) : path \in RowOutputPaths(r) }
            = { << rows[r].images[j] >> : j \in 1..Len(rows[r].images) }

\* C21: if writing the output of row k fails in STRIPS or IMAGES mode the error
\* reaches the caller of assemble_images, the files written for the rows
\* before k are on disk as they were written, and nothing is written for the
\* rows after k: the run neither rolls back nor goes on.
C21_WriteFailureStops ==
    (InStrips \/ InImages \/ (pc = "failed" /\ param.combine_mode \in { "STRIPS", "IMAGES" }
                                /\ row_i >= 1)) =>
        \A k \in 1..Len(rows) :
            (\E path \in RowOutputPaths(k) : path \in dirs) =>
                /\ row_i <= k
                /\ pc # "done"
                /\ \A r \in 1..(row_i - 1) : RowWritten(r)
                /\ \A path \in DOMAIN files :
                      \A i \in 1..Len(PastedImages(files[path])) :
                          RowOfImage(PastedImages(files[path])[i]) <= row_i
                /\ pc = "failed" =>
                      /\ row_i = k
                      /\ error = "IsADirectoryError"
                      /\ \A path \in RowOutputPaths(k) \cap dirs : path \notin DOMAIN files

\* a STRIPS run has failed at its second row after saving the first
C21_Witness ==
    /\ param.combine_mode = "STRIPS"
    /\ pc = "failed"
    /\ error = "IsADirectoryError"
    /\ row_i = 2
    /\ Len(rows) >= 2
    /\ Len(saved) = 1
    /\ RowWritten(1)

\* the input has action folders and none of them holds a frame
NoFrames ==
    /\ InputFolders # << >>
    /\ \A i \in 1..Len(InputFolders) : InputFolders[i].files = << >>

\* C22: when the action folders exist but hold no frames the assembly ends in
\* an error, in every combine mode and for every max_frames_per_row: it makes no
\* canvas of size zero and does not end normally without output.
C22_NoFramesRejected ==
    NoFrames => pc # "done" /\ NoOutput

\* C24: for every row built, img_accum_width is the sum of the widths of the
\* row's images, img_widest and img_tallest are the largest width and height
\* among them, and global_img_widest and global_img_tallest are the maxima
\* over all rows; so img_widest <= global_img_widest, img_tallest <=
\* global_img_tallest and img_accum_width <= img_widest times the frame count.
C24_RowAggregates ==
    /\ \A r \in 1..Len(rows) :
          LET images == rows[r].images
              n == Len(images)
          IN  /\ rows[r].img_accum_width = SumOver(n, [ j \in 1..n |-> images[j].width ])
              /\ rows[r].img_widest = MaxOf({ images[j].width : j \in 1..n } \cup { 0 })
              /\ rows[r].img_tallest = MaxOf({ images[j].height : j \in 1..n } \cup { 0 })
              /\ rows[r].img_widest <= global_img_widest
              /\ rows[r].img_tallest <= global_img_tallest
              /\ rows[r].img_accum_width <= rows[r].img_widest * n
    /\ pc # "failed" =>
          /\ global_img_widest = MaxOf({ rows[r].img_widest : r \in 1..Len(rows) } \cup { 0 })
          /\ global_img_tallest = MaxOf({ rows[r].img_tallest : r \in 1..Len(rows) } \cup { 0 })

\* two rows are built, one of frames of different widths and heights that is
\* narrower in sum than its widest frame times its frame count, one lower than
\* the tallest frame of the run
C24_Witness ==
    /\ LoadedAll
    /\ Len(rows) >= 2
    /\ \E r \in 1..Len(rows) :
          /\ Len(rows[r].images) >= 2
          /\ rows[r].img_accum_width < rows[r].img_widest * Len(rows[r].images)
    /\ \E r \in 1..Len(rows) : rows[r].img_tallest < global_img_tallest

\* C27: in SHEET mode, for every consistency, alignment, font_size (0 included)
\* and frame count per row, every pasted frame lies inside the canvas inset by
\* the surrounding margins: left <= x, x + width <= sheet_width - right,
\* top <= y and y + height <= sheet_height - bottom.
C27_FramesInsideSheet ==
    InSheet =>
        \A k \in 1..Len(canvas.ops) :
            LET o == canvas.ops[k]
            IN  o.op = "paste" =>
                  /\ param.surrounding_margin[4] <= o.x
                  /\ o.x + o.img.width <= canvas.width - param.surrounding_margin[2]
                  /\ param.surrounding_margin[1] <= o.y
                  /\ o.y + o.img.height <= canvas.height - param.surrounding_margin[3]

-----------------------------------------------------------------------------
(* C23: two calls in SHEET mode with the same param on the same input folder
   paint the same sheet: all along the second call its paint operations are
   the first operations of the first call in the same order, and when the
   second call is over its canvas (size, mode and every label and frame with
   its position) is the canvas of the first call *)

IsPrefix(s, t) == Len(s) <= Len(t) /\ SubSeq(t, 1, Len(s)) = s

-----------------------------------------------------------------------------
(* C30: after any sequence of add_strip, remove_strip and move_strip from an
   empty list with strip_index 0, strip_index is a position of the list when
   the list has strips and 0 when it has none; a move_strip step that can move
   swaps the selected strip with its neighbour, leaves every other strip where
   it was and makes strip_index the new position of the moved strip; a move
   past either end changes neither the list nor strip_index *)

StripIndexValid ==
    IF animation_strips = << >> THEN strip_index = 0
    ELSE 0 <= strip_index /\ strip_index < Len(animation_strips)

\* the list s with the items at the 0-based positions a and b exchanged
Swapped(s, a, b) ==
    [ i \in 1..Len(s) |-> IF i = a + 1 THEN s[b + 1]
                          ELSE IF i = b + 1 THEN s[a + 1] ELSE s[i] ]

MoveStripSwaps(direction) ==
    LET to == IF direction = "UP" THEN strip_index - 1 ELSE strip_index + 1
    IN  MoveStrip(direction) =>
            IF 0 <= to /\ to < Len(animation_strips)
            THEN /\ animation_strips' = Swapped(animation_strips, strip_index, to)
                 /\ strip_index' = to
                 /\ animation_strips'[strip_index' + 1] = animation_strips[strip_index + 1]
            ELSE UNCHANGED << animation_strips, strip_index >>

C30_StripIndexStaysValid ==
    /\ []StripIndexValid
    /\ [][MoveStripSwaps("UP") /\ MoveStripSwaps("DOWN")]_vars

\* a strip in the middle of three was moved down to the end and is still the
\* selected one
C30_Witness ==
    /\ Len(animation_strips) = 3
    /\ strip_index = 2
    /\ animation_strips[3].id = 2
    /\ animation_strips[2].id = 3

-----------------------------------------------------------------------------
(* C25: the progress events of create_sprite_sheet come strip after strip in
   list order: on_sheet_row_creating once, then for every frame from
   frame_start to frame_end in ascending order on_sheet_frame_creating, the
   render of that frame and on_sheet_frame_created, then on_sheet_row_created
   once.  At every moment what has been broadcast and rendered is the beginning
   of that sequence, and it is the whole sequence once the strips are done *)

ProgressKinds == { "row_creating", "frame_creating", "render", "frame_created", "row_created" }

\* an entry without the file it is about
Plain(e) == [ ev |-> e.ev, label |-> e.label, n |-> e.n, strip |-> e.strip ]

RECURSIVE ProgressOf(_)
ProgressOf(log) ==
    IF log = << >> THEN << >>
    ELSE (IF Head(log).ev \in ProgressKinds THEN << Plain(Head(log)) >> ELSE << >>)
         \o ProgressOf(Tail(log))

RECURSIVE NestedFrames(_, _, _, _)
NestedFrames(label, i, fr, last) ==
    IF fr > last THEN << >>
    ELSE << [ ev |-> "frame_creating", label |-> label, n |-> fr, strip |-> i ],
            [ ev |-> "render", label |-> << >>, n |-> fr, strip |-> i ],
            [ ev |-> "frame_created", label |-> label, n |-> fr, strip |-> i ] >>
         \o NestedFrames(label, i, fr + 1, last)

NestedStrip(i, strip) ==
    LET range == strip_frame_range(strip)
    IN  << [ ev |-> "row_creating", label |-> strip.label, n |-> range[2], strip |-> i ] >>
        \o NestedFrames(strip.label, i, range[1], range[2])
        \o << [ ev |-> "row_created", label |-> strip.label, n |-> range[2], strip |-> i ] >>

RECURSIVE NestedStrips(_, _)
NestedStrips(strips, i) ==
    IF i >= Len(strips) THEN << >>
    ELSE NestedStrip(i, strips[i + 1]) \o NestedStrips(strips, i + 1)

StripsDone == maker_pc \in { "pixelate", "px_try", "px_images", "px_finally",
                             "assemble", "assembling", "returned" }

C25_EventsNested ==
    maker_pc # "idle" =>
        /\ IsPrefix(ProgressOf(events), NestedStrips(sheet_param.animation_strips, 0))
        /\ StripsDone =>
               ProgressOf(events) = NestedStrips(sheet_param.animation_strips, 0)

\* two strips of two frames each were rendered to the end
C25_Witness ==
    /\ maker_pc = "returned"
    /\ Len(sheet_param.animation_strips) = 2
    /\ \A k \in 1..2 :
           strip_frame_range(sheet_param.animation_strips[k])[2]
           > strip_frame_range(sheet_param.animation_strips[k])[1]
    /\ Len(ProgressOf(events)) = 16
    /\ ProgressOf(events) = NestedStrips(sheet_param.animation_strips, 0)

-----------------------------------------------------------------------------
(* C26: once pixelate_images has made the pixelate scene the active one, a
   failure while processing (no compositor tree or ImageInput node, an image
   that does not load, a render that fails) still ends with the window back on
   the scene that was active before and the pixelate scene removed, and the
   exception that was caught is the one raised to the caller *)

\* pixelate_images is over after it had switched the scene
PixelateOver ==
    /\ original_scene # ""
    /\ maker_pc \in { "raised", "assemble", "assembling", "returned" }

C26_SceneRestoredOnFailure ==
    /\ (PixelateOver /\ px_exception # "") =>
           /\ window_scene = USER_SCENE
           /\ window_scene = original_scene
           /\ PIXELATE_SCENE_NAME \notin scenes
           /\ maker_pc = "raised"
           /\ maker_error = px_exception
    /\ PixelateOver =>
           /\ window_scene = original_scene
           /\ PIXELATE_SCENE_NAME \notin scenes

\* the second of several images failed to load or to render
C26_Witness ==
    /\ PixelateOver
    /\ maker_pc = "raised"
    /\ px_exception = "RuntimeError"
    /\ env.fault \in { "load_raises", "px_render" }
    /\ px_i = 2
    /\ Len(pixelate_dict) >= 3
    /\ window_scene = USER_SCENE

-----------------------------------------------------------------------------
(* C28: with delete_temp_folder set, the temp folder create_sprite_sheet made
   does not exist any more when create_sprite_sheet is over, whether it
   returned or a render, the pixelation or assemble_images raised; and the
   temp folder it makes did not exist before the call *)

MakerOver == maker_pc \in { "returned", "raised" }

TempFolderFresh == temp_dir # << >> => temp_dir \notin env.old_dirs

TempFolderGone == temp_dir \notin dirs /\ temp_tree = << >>

C28_TempFolderRemoved ==
    maker_pc # "idle" =>
        /\ TempFolderFresh
        /\ (MakerOver /\ sheet_param.delete_temp_folder) => TempFolderGone

-----------------------------------------------------------------------------
(* C29: with pixelation requested every rendered frame file is pixelated
   exactly once, after the last render of the last strip and before
   assemble_images starts; with pixelation not requested nothing is pixelated;
   and when create_sprite_sheet is over the caller's sprite_param.to_pixelate
   is what it was at the call *)

Logged(kind) == { k \in 1..Len(events) : events[k].ev = kind }

TimesPixelated(path) ==
    Cardinality({ k \in Logged("pixelate") : events[k].path = path })

\* every image that was handed to the pixelate scene could be loaded
AllImagesLoad == env.fault # "load_none"

PixelatedOnceInOnePass ==
    /\ \A j \in Logged("pixelate") :
           /\ \A k \in Logged("render") : k < j
           /\ \A k \in Logged("assemble") : j < k
    /\ (Logged("assemble") # { } /\ sheet_param.sprite_param.to_pixelate /\ AllImagesLoad) =>
           /\ \A k \in Logged("render") : TimesPixelated(events[k].path) = 1
           /\ Cardinality(Logged("pixelate")) = Cardinality(Logged("render"))
    /\ ~sheet_param.sprite_param.to_pixelate => Logged("pixelate") = { }

CallerFlagKept == MakerOver => to_pixelate_attr = sheet_param.sprite_param.to_pixelate

C29_PixelatedOnceFlagKept ==
    maker_pc # "idle" => (PixelatedOnceInOnePass /\ CallerFlagKept)

====
